---- MODULE Spec2Model ----
(***************************************************************************)
(* Model of the chess server back end: the game finite-state machine and   *)
(* its context (GameState.cpp, GameContext.cpp, ChessGame.cpp), the        *)
(* controller that turns wire messages into context calls                  *)
(* (GameController.cpp), and the server's session registry and egress      *)
(* fan-out (Server.cpp, Session.cpp).                                      *)
(*                                                                         *)
(* A SessionId "session_<N>" is the integer N; the empty string "" that    *)
(* marks an unbound player slot is NoPlayer.                               *)
(*                                                                         *)
(* The chess rules engine is an external library.  A legal move is named   *)
(* by the class the library reports for it after it is made ("quiet",      *)
(* "mate", "stale"); "illegal" parses but matches no legal move,           *)
(* "garbage" does not parse.  The position is the sequence of the moves    *)
(* made since the starting position.                                       *)
(*                                                                         *)
(* A serialised JSON text is [quoted |-> n, env |-> e]: the dump of the    *)
(* object e, wrapped n times as a JSON string literal.  n = 0 is the text  *)
(* of a JSON object; n = 1 is the text of a JSON string whose content is   *)
(* the text of the object.                                                 *)
(***************************************************************************)
EXTENDS Integers, Sequences, FiniteSets, TLC

MaxSessions == 2
MaxMoves == 3
MaxFileMoves == 2
MaxPlaybacks == 1
MaxChunks == 2
MaxStream == 4
MaxRead == 3
MaxLines == 3
MaxElements == 3
MaxUploadLines == 4

SessionIds == 1..MaxSessions
NoPlayer == 0

LegalMoves == {"quiet", "mate", "stale"}
ParsedMoves == LegalMoves \cup {"illegal"}
MoveStrings == ParsedMoves \cup {"garbage"}
STARTPOS == << >>

VARIABLES current_state_, white_player_id_, black_player_id_, board_, moveNumber_,
          sessions, active, counter, pc, sessions_to_cleanup_, playback, file_uploads_, sent,
          wire, consumed, buffer, dispatched, handed, rpc, running,
          parser_, game_data, move_str, result, called,
          mutex_, sessions_mutex_, handling, pending, cleanupThread, Server_running,
          closes, closeCallbacks, upload_data

ctxvars == <<current_state_, white_player_id_, black_player_id_, board_, moveNumber_>>
srvvars == <<sessions, active, counter, pc, sessions_to_cleanup_, playback>>
\* one session's reader: the bytes still on the wire, the bytes read, the
\* session's buffer, the messages passed to routeMessage, the send calls of
\* handleMessage, the reader thread's position
framervars == <<wire, consumed, buffer, dispatched, handed, rpc>>
\* the notation parser on its own: the parser the factory created, the
\* arguments of parseGame and parseMove, the value returned by the last call
parservars == <<parser_, game_data, move_str, result, called>>
\* the threads and their locks: the owner of the context mutex and of the
\* sessions mutex, the message each reader thread is handling, the egress it
\* has still to make once it gets the sessions mutex, the cleanup thread's
\* position and local list, the server's running flag
lockvars == <<mutex_, sessions_mutex_, handling, pending, cleanupThread, Server_running>>
\* the life of each transport: how many times its descriptor was shut down
\* and closed, and the threads that invoked its close callback
transportvars == <<closes, closeCallbacks>>
vars == <<current_state_, white_player_id_, black_player_id_, board_, moveNumber_,
          sessions, active, counter, pc, sessions_to_cleanup_, playback, file_uploads_, sent,
          wire, consumed, buffer, dispatched, handed, rpc, running,
          parser_, game_data, move_str, result, called,
          mutex_, sessions_mutex_, handling, pending, cleanupThread, Server_running,
          closes, closeCallbacks, upload_data>>

(***************************************************************************)
(* JSON conversions (nlohmann::json).                                      *)
(***************************************************************************)
\* json::dump() of a JSON object
dump(env) == [quoted |-> 0, env |-> env]

\* json(const std::string&) followed by dump(): the std::string becomes a
\* JSON string value, and its dump is the quoted, escaped text
dumpJsonString(text) == [quoted |-> text.quoted + 1, env |-> text.env]

\* json(const std::string&) followed by the implicit conversion back to
\* std::string: the content of the JSON string value
getJsonString(text) == text

\* what a client obtains from json-parsing one received line: the object,
\* or a string value that has no fields
parseLine(text) == IF text.quoted = 0 THEN text.env ELSE [type |-> "json_string"]

(***************************************************************************)
(* ChessGame                                                               *)
(***************************************************************************)
ChessGame_getCurrentPlayer(board) == IF Len(board) % 2 = 0 THEN "white" ELSE "black"

ChessGame_getFEN(board) == board

ChessGame_inCheck(board) == Len(board) > 0 /\ board[Len(board)] = "mate"

ChessGame_isCheckmate(board) == Len(board) > 0 /\ board[Len(board)] = "mate"

ChessGame_isStalemate(board) == Len(board) > 0 /\ board[Len(board)] = "stale"

\* findMove / findMoveFromSan: the legal move matching the parsed move, if any;
\* a position of checkmate or stalemate has no legal move
ChessGame_findMove(board, move) ==
    /\ move \in LegalMoves
    /\ ~ChessGame_isCheckmate(board)
    /\ ~ChessGame_isStalemate(board)

\* variant: the counter is read after its increment
ChessGame_fillStrikeDataBeforeMove_afterIncrement(moveNumber) ==
    [strike_number |-> moveNumber + 1,
     color |-> IF moveNumber % 2 = 1 THEN "white" ELSE "black"]

ChessGame_fillStrikeDataBeforeMove(moveNumber) ==
    [strike_number |-> moveNumber,
     color |-> IF moveNumber % 2 = 1 THEN "white" ELSE "black"]

\* applyMove: [ok, board, moveNumber, data]
ChessGame_applyMove(board, moveNumber, move) ==
    IF ~ChessGame_findMove(board, move)
    THEN [ok |-> FALSE, board |-> board, moveNumber |-> moveNumber]
    ELSE LET before == ChessGame_fillStrikeDataBeforeMove(moveNumber)
             b2 == Append(board, move)
         IN  [ok |-> TRUE, board |-> b2, moveNumber |-> moveNumber + 1,
              data |-> [move |-> move,
                        color |-> before.color,
                        strike_number |-> before.strike_number,
                        is_check |-> ChessGame_inCheck(b2),
                        is_checkmate |-> ChessGame_isCheckmate(b2),
                        is_stalemate |-> ChessGame_isStalemate(b2)]]

ChessGame_reset(ctx) == [ctx EXCEPT !.board = STARTPOS, !.moveNumber = 1]

(***************************************************************************)
(* GameContext                                                             *)
(***************************************************************************)
Ctx == [state |-> current_state_, white |-> white_player_id_, black |-> black_player_id_,
        board |-> board_, moveNumber |-> moveNumber_]

hasWhitePlayer(ctx) == ctx.white # NoPlayer

hasBlackPlayer(ctx) == ctx.black # NoPlayer

bothPlayersJoined(ctx) == hasWhitePlayer(ctx) /\ hasBlackPlayer(ctx)

transitionTo(ctx, new_state) == [ctx EXCEPT !.state = new_state]

getStatusMessage(ctx) ==
    IF ctx.state = "WaitingForPlayers"
    THEN IF hasWhitePlayer(ctx) /\ ~hasBlackPlayer(ctx)
         THEN "Player 1 (White) joined. Waiting for Player 2 (Black)"
         ELSE IF hasBlackPlayer(ctx) /\ ~hasWhitePlayer(ctx)
         THEN "Player 1 (Black) joined. Waiting for Player 2 (White)"
         ELSE "Waiting for players to join"
    ELSE IF ctx.state = "ReadyToStart"
    THEN "Ready to start. Wait for start command to be sent"
    ELSE IF ctx.state = "InProgress"
    THEN IF ChessGame_getCurrentPlayer(ctx.board) = "white"
         THEN "Game in progress - White's turn"
         ELSE "Game in progress - Black's turn"
    ELSE "Game over"

\* egress requests issued through the context's callbacks
Broadcast(origin, to_all, text) ==
    [kind |-> "broadcast", origin |-> origin, to_all |-> to_all, text |-> text]

Unicast(target, text) ==
    [kind |-> "unicast", origin |-> target, to_all |-> FALSE, text |-> text]

Reply(target, text) ==
    [kind |-> "reply", origin |-> target, to_all |-> FALSE, text |-> text]

buildError(msg) == [type |-> "error", error |-> msg]

Result(ctx, reply, egress) == [ctx |-> ctx, reply |-> reply, egress |-> egress]

\* variant: the chess model is not reset
resetGame_keepsChess(ctx, player_id) ==
    LET c1 == [ctx EXCEPT !.white = NoPlayer, !.black = NoPlayer]
        c3 == transitionTo(c1, "WaitingForPlayers")
    IN  Result(c3, [type |-> "game_reset", status |-> "Waiting for new players"], << >>)

\* resetGame: the statements after the first return are never executed
resetGame(ctx, player_id) ==
    LET c1 == [ctx EXCEPT !.white = NoPlayer, !.black = NoPlayer]
        c2 == ChessGame_reset(c1)
        c3 == transitionTo(c2, "WaitingForPlayers")
    IN  Result(c3, [type |-> "game_reset", status |-> "Waiting for new players"], << >>)

(***************************************************************************)
(* Game states (GameState.hpp, GameState.cpp)                              *)
(***************************************************************************)
\* variant: the colour slot is assigned without looking at its holder
WaitingForPlayersState_handleJoinRequest_overwrites(ctx, player_id, color) ==
    IF color \notin {"white", "black"}
    THEN Result(ctx, buildError("Invalid color"), << >>)
    ELSE
      LET c1 == IF color = "white" THEN [ctx EXCEPT !.white = player_id]
                                   ELSE [ctx EXCEPT !.black = player_id]
          c2 == IF bothPlayersJoined(c1) THEN transitionTo(c1, "ReadyToStart") ELSE c1
          join_response == [type |-> "join_success", session_id |-> player_id,
                            color |-> color, status |-> getStatusMessage(c2),
                            single_player |-> FALSE]
      IN  Result(c2, join_response, << >>)

WaitingForPlayersState_handleJoinRequest(ctx, player_id, color) ==
    IF color = "white" /\ hasWhitePlayer(ctx) /\ ctx.white # player_id
    THEN Result(ctx, buildError("White player slot already taken"), << >>)
    ELSE IF color = "black" /\ hasBlackPlayer(ctx) /\ ctx.black # player_id
    THEN Result(ctx, buildError("Black player slot already taken"), << >>)
    ELSE IF color \notin {"white", "black"}
    THEN Result(ctx, buildError("Invalid color"), << >>)
    ELSE
      LET c1 == IF color = "white" THEN [ctx EXCEPT !.white = player_id]
                                   ELSE [ctx EXCEPT !.black = player_id]
          c2 == IF bothPlayersJoined(c1) THEN transitionTo(c1, "ReadyToStart") ELSE c1
          ready_broadcast == [type |-> "game_ready",
                              status |-> "Both players joined. You can now start the game!",
                              white_player |-> c2.white,
                              black_player |-> c2.black]
          player_joined == [type |-> "player_joined", color |-> color,
                            status |-> getStatusMessage(c2)]
          join_response == [type |-> "join_success", session_id |-> player_id,
                            color |-> color, status |-> getStatusMessage(c2),
                            single_player |-> FALSE]
      IN  IF bothPlayersJoined(c1)
          THEN Result(c2, join_response, <<Broadcast(player_id, TRUE, dump(ready_broadcast))>>)
          ELSE Result(c2, join_response, <<Broadcast(player_id, FALSE, dump(player_joined))>>)

WaitingForPlayersState_handleJoinRequestAsSinglePlayer(ctx, player_id) ==
    LET c1 == [ctx EXCEPT !.white = player_id, !.black = player_id]
        c2 == transitionTo(c1, "ReadyToStart")
        join_response == [type |-> "join_success", session_id |-> player_id,
                          status |-> getStatusMessage(c2), single_player |-> TRUE]
    IN  Result(c2, join_response, << >>)

ReadyToStartState_handleStartRequest(ctx, player_id) ==
    LET c1 == transitionTo(ctx, "InProgress")
        c2 == ChessGame_reset(c1)
        fen == ChessGame_getFEN(c2.board)
        start_response == [type |-> "game_started", status |-> getStatusMessage(c2),
                           board |-> [fen |-> fen]]
        game_started_broadcast == [type |-> "game_started", status |-> getStatusMessage(c2),
                                   white_player |-> c2.white, black_player |-> c2.black,
                                   board |-> [fen |-> fen]]
    IN  Result(c2, start_response, <<Broadcast(player_id, FALSE, dump(game_started_broadcast))>>)

\* variant: the sender is compared with the slot of the side to move
InProgressState_handleMoveRequest_checksSender(ctx, player_id, move) ==
    LET on_move == IF ctx.moveNumber % 2 = 1 THEN ctx.white ELSE ctx.black
        applied == ChessGame_applyMove(ctx.board, ctx.moveNumber, move)
    IN  IF player_id # on_move \/ ~applied.ok
        THEN Result(ctx, buildError("Invalid move"), << >>)
        ELSE
          LET c1 == [ctx EXCEPT !.board = applied.board, !.moveNumber = applied.moveNumber]
              strike_data == applied.data
              response == [type |-> "move_result", success |-> TRUE,
                           strike |-> [move |-> strike_data.move,
                                       color |-> strike_data.color,
                                       strike_number |-> strike_data.strike_number,
                                       check |-> strike_data.is_check,
                                       checkmate |-> strike_data.is_checkmate,
                                       stalemate |-> strike_data.is_stalemate],
                           board |-> [fen |-> ChessGame_getFEN(c1.board)]]
              c2 == IF strike_data.is_checkmate \/ strike_data.is_stalemate
                    THEN transitionTo(c1, "GameOver") ELSE c1
          IN  Result(c2, response, <<Broadcast(player_id, FALSE, dump(response))>>)

InProgressState_handleMoveRequest(ctx, player_id, move) ==
    LET applied == ChessGame_applyMove(ctx.board, ctx.moveNumber, move)
    IN  IF ~applied.ok
        THEN Result(ctx, buildError("Invalid move"), << >>)
        ELSE
          LET c1 == [ctx EXCEPT !.board = applied.board, !.moveNumber = applied.moveNumber]
              strike_data == applied.data
              response == [type |-> "move_result", success |-> TRUE,
                           strike |-> [move |-> strike_data.move,
                                       color |-> strike_data.color,
                                       strike_number |-> strike_data.strike_number,
                                       check |-> strike_data.is_check,
                                       checkmate |-> strike_data.is_checkmate,
                                       stalemate |-> strike_data.is_stalemate],
                           board |-> [fen |-> ChessGame_getFEN(c1.board)]]
              c2 == IF strike_data.is_checkmate \/ strike_data.is_stalemate
                    THEN transitionTo(c1, "GameOver") ELSE c1
          IN  Result(c2, response, <<Broadcast(player_id, FALSE, dump(response))>>)

InProgressState_handleDisplayBoard(ctx) ==
    Result(ctx, [type |-> "board_display", status |-> "ok",
                 data |-> [board |-> ctx.board]], << >>)

\* GameContext::handle*Request: delegation to the current state object
GameContext_handleJoinRequest(ctx, player_id, color) ==
    CASE ctx.state = "WaitingForPlayers" ->
             WaitingForPlayersState_handleJoinRequest(ctx, player_id, color)
      [] ctx.state = "ReadyToStart" ->
             Result(ctx, buildError("Both players already joined"), << >>)
      [] ctx.state = "InProgress" ->
             Result(ctx, buildError("Game already in progress"), << >>)
      [] ctx.state = "GameOver" ->
             Result(ctx, buildError("Game is over. Start a new game"), << >>)

GameContext_handleJoinRequestAsSinglePlayer(ctx, player_id) ==
    CASE ctx.state = "WaitingForPlayers" ->
             WaitingForPlayersState_handleJoinRequestAsSinglePlayer(ctx, player_id)
      [] ctx.state = "ReadyToStart" ->
             Result(ctx, buildError("Game already in progress"), << >>)
      [] ctx.state = "InProgress" ->
             Result(ctx, buildError("Game already in progress"), << >>)
      [] ctx.state = "GameOver" ->
             Result(ctx, buildError("Game already in progress"), << >>)

\* variant: GameOverState starts a new game like ReadyToStartState
GameContext_handleStartRequest_gameOverStarts(ctx, player_id) ==
    CASE ctx.state = "WaitingForPlayers" ->
             Result(ctx, buildError("Cannot start: waiting for players"), << >>)
      [] ctx.state = "ReadyToStart" ->
             ReadyToStartState_handleStartRequest(ctx, player_id)
      [] ctx.state = "InProgress" ->
             Result(ctx, buildError("Game already started"), << >>)
      [] ctx.state = "GameOver" ->
             ReadyToStartState_handleStartRequest(ctx, player_id)

\* variant: a start request in GameOver starts the next game at once
GameContext_handleStartRequest_restartsAfterGameOver(ctx, player_id) ==
    CASE ctx.state = "WaitingForPlayers" ->
             Result(ctx, buildError("Cannot start: waiting for players"), << >>)
      [] ctx.state = "ReadyToStart" ->
             ReadyToStartState_handleStartRequest(ctx, player_id)
      [] ctx.state = "InProgress" ->
             Result(ctx, buildError("Game already started"), << >>)
      [] ctx.state = "GameOver" ->
             ReadyToStartState_handleStartRequest(ctx, player_id)

GameContext_handleStartRequest(ctx, player_id) ==
    CASE ctx.state = "WaitingForPlayers" ->
             Result(ctx, buildError("Cannot start: waiting for players"), << >>)
      [] ctx.state = "ReadyToStart" ->
             ReadyToStartState_handleStartRequest(ctx, player_id)
      [] ctx.state = "InProgress" ->
             Result(ctx, buildError("Game already started"), << >>)
      [] ctx.state = "GameOver" ->
             Result(ctx, buildError("Game is over. Reset first"), << >>)

GameContext_handleMoveRequest(ctx, player_id, move) ==
    CASE ctx.state = "WaitingForPlayers" ->
             Result(ctx, buildError("Cannot move: game not started"), << >>)
      [] ctx.state = "ReadyToStart" ->
             Result(ctx, buildError("Game not started yet"), << >>)
      [] ctx.state = "InProgress" ->
             InProgressState_handleMoveRequest(ctx, player_id, move)
      [] ctx.state = "GameOver" ->
             Result(ctx, buildError("Game is over"), << >>)

GameContext_handleEndRequest(ctx, player_id) ==
    CASE ctx.state = "WaitingForPlayers" ->
             Result(ctx, buildError("No game to end"), << >>)
      [] ctx.state = "ReadyToStart" -> resetGame(ctx, player_id)
      [] ctx.state = "InProgress" -> resetGame(ctx, player_id)
      [] ctx.state = "GameOver" -> resetGame(ctx, player_id)

GameContext_handleDisplayBoard(ctx) ==
    CASE ctx.state = "WaitingForPlayers" ->
             Result(ctx, buildError("No game to display"), << >>)
      [] ctx.state = "ReadyToStart" ->
             Result(ctx, buildError("Game not started yet"), << >>)
      [] ctx.state = "InProgress" -> InProgressState_handleDisplayBoard(ctx)
      [] ctx.state = "GameOver" ->
             Result(ctx, buildError("Game is over. Start a new game"), << >>)

(***************************************************************************)
(* GameController                                                          *)
(***************************************************************************)
\* getParserType() of the parser main() selects by default
ParserType == "SimpleNotation"

\* IGameParser::parseMove: nothing for a string outside the notation
parseMove(move) == IF move = "garbage" THEN [ok |-> FALSE] ELSE [ok |-> TRUE, move |-> move]

GameController_handleJoinGame(ctx, session_id, single_player, color) ==
    IF single_player
    THEN GameContext_handleJoinRequestAsSinglePlayer(ctx, session_id)
    ELSE GameContext_handleJoinRequest(ctx, session_id, color)

GameController_handleStartGame(ctx, session_id) ==
    GameContext_handleStartRequest(ctx, session_id)

GameController_handleParsedMove(ctx, session_id, move) ==
    GameContext_handleMoveRequest(ctx, session_id, move)

\* the error text is "Couldn't parse move using " + getParserType()
GameController_handleMoveToParse(ctx, session_id, move) ==
    LET parsed_move == parseMove(move)
    IN  IF ~parsed_move.ok
        THEN Result(ctx, [type |-> "error",
                          error |-> "Couldn't parse move using SimpleNotation",
                          parser_used |-> ParserType], << >>)
        ELSE GameController_handleParsedMove(ctx, session_id, parsed_move.move)

GameController_handleEndGame(ctx, session_id) ==
    GameContext_handleEndRequest(ctx, session_id)

GameController_handleDisplayBoard(ctx) ==
    GameContext_handleDisplayBoard(ctx)

\* handleMessage: the line is parsed (json::parse_error for text that is not
\* JSON, modelled as a record with the field raw); a value without "command"
\* and a command none of the branches names fall through to the
\* "Unknown command" reply, which has no "type" field.
\* json_message["single_player"], json_message["color"] and
\* json_message["move"] are converted (to bool, to std::string) before the
\* handler is entered; the conversion of an absent field (null) throws
\* json::type_error. The field value "null" and a missing record field stand
\* for an absent field.
GameController_handleMessage(ctx, session_id, msg) ==
    IF "raw" \in DOMAIN msg
    THEN [thrown |-> TRUE, what |-> "parse_error"]
    ELSE IF "command" \notin DOMAIN msg
    THEN [thrown |-> FALSE, res |-> Result(ctx, [error |-> "Unknown command"], << >>)]
    ELSE
    CASE msg.command = "join_game" ->
             IF msg.single_player = "null" \/ msg.color = "null"
             THEN [thrown |-> TRUE, what |-> "type_error"]
             ELSE [thrown |-> FALSE,
                   res |-> GameController_handleJoinGame(ctx, session_id,
                                                         msg.single_player = "true", msg.color)]
      [] msg.command = "start_game" ->
             [thrown |-> FALSE, res |-> GameController_handleStartGame(ctx, session_id)]
      [] msg.command = "make_move" ->
             IF "move" \notin DOMAIN msg
             THEN [thrown |-> TRUE, what |-> "type_error"]
             ELSE [thrown |-> FALSE,
                   res |-> GameController_handleMoveToParse(ctx, session_id, msg.move)]
      [] msg.command = "end_game" ->
             [thrown |-> FALSE, res |-> GameController_handleEndGame(ctx, session_id)]
      [] msg.command = "display_board" ->
             [thrown |-> FALSE, res |-> GameController_handleDisplayBoard(ctx)]
      [] OTHER ->
             [thrown |-> FALSE, res |-> Result(ctx, [error |-> "Unknown command"], << >>)]

\* routeMessage: a json::parse_error is answered with "Invalid JSON format",
\* any other json::exception with "Invalid message structure"
GameController_routeMessage(ctx, session_id, msg) ==
    LET handled == GameController_handleMessage(ctx, session_id, msg)
    IN  IF handled.thrown /\ handled.what = "parse_error"
        THEN Result(ctx, [type |-> "error", error |-> "Invalid JSON format",
                          details |-> "parse error"], << >>)
        ELSE IF handled.thrown
        THEN Result(ctx, [type |-> "error", error |-> "Invalid message structure"], << >>)
        ELSE handled.res

\* an absent entry of file_uploads_; accumulated_data is kept as the number
\* of chunks whose data was appended to it
NoUpload == [present |-> FALSE, accumulated_data |-> 0]

\* the metadata of an upload_game line: well formed with the two chunk
\* numbers, or lacking a field handleFileUploadChunk reads
ChunkNumbers == 0..(MaxChunks + 1)
ChunkTotals == 0..MaxChunks

UploadMessages ==
    [command : {"upload_game"}, metadata : {"ok", "malformed"},
     chunk_current : ChunkNumbers, chunks_total : ChunkTotals]

\* the integer division (chunk_current * 100) / chunks_total is undefined
DivisionByZero(msg) == msg.metadata = "ok" /\ msg.chunks_total = 0

\* variant: the last chunk is acknowledged like an intermediate one
GameController_handleFileUploadChunk_acksLastChunk(upload, msg) ==
    IF msg.metadata = "malformed"
    THEN [upload |-> upload, complete |-> FALSE,
          response |-> <<dump([type |-> "error", error |-> "Invalid upload chunk format"])>>]
    ELSE
      LET u1 == IF msg.chunk_current = 1
                THEN [present |-> TRUE, accumulated_data |-> 0]
                ELSE [upload EXCEPT !.present = TRUE]
          u2 == [u1 EXCEPT !.accumulated_data = @ + 1]
      IN  IF msg.chunk_current > msg.chunks_total \/ msg.chunks_total = 0
          THEN [upload |-> u2, complete |-> TRUE, response |-> << >>]
          ELSE [upload |-> u2, complete |-> FALSE,
                response |-> <<dump([type |-> "upload_progress",
                                     chunk_received |-> msg.chunk_current,
                                     chunks_total |-> msg.chunks_total,
                                     percent |-> (msg.chunk_current * 100)
                                                    \div msg.chunks_total])>>]

\* handleFileUploadChunk up to its return or its call of processFileContent:
\* upload is file_uploads_[upload_key] before the call. The fields are read
\* before the entry is looked up, so a json::exception leaves the table alone.
\* response is the optional return value, complete tells that
\* processFileContent is called. Where the division is undefined, this is the
\* execution that goes on past it.
GameController_handleFileUploadChunk(upload, msg) ==
    IF msg.metadata = "malformed"
    THEN [upload |-> upload, complete |-> FALSE,
          response |-> <<dump([type |-> "error", error |-> "Invalid upload chunk format"])>>]
    ELSE
      LET u1 == IF msg.chunk_current = 1
                THEN [present |-> TRUE, accumulated_data |-> 0]
                ELSE [upload EXCEPT !.present = TRUE]
          u2 == [u1 EXCEPT !.accumulated_data = @ + 1]
      IN  IF msg.chunk_current >= msg.chunks_total
          THEN [upload |-> u2, complete |-> TRUE, response |-> << >>]
          ELSE [upload |-> u2, complete |-> FALSE,
                response |-> <<dump([type |-> "upload_progress",
                                     chunk_received |-> msg.chunk_current,
                                     chunks_total |-> msg.chunks_total,
                                     percent |-> (msg.chunk_current * 100)
                                                    \div msg.chunks_total])>>]

\* variant: the slot of the disconnected player is cleared, the game is not reset
GameController_routeDisconnect_noReset(ctx, session_id) ==
    IF ctx.white = session_id
    THEN [hadPlayerJoined |-> TRUE, ctx |-> [ctx EXCEPT !.white = NoPlayer]]
    ELSE IF ctx.black = session_id
    THEN [hadPlayerJoined |-> TRUE, ctx |-> [ctx EXCEPT !.black = NoPlayer]]
    ELSE [hadPlayerJoined |-> FALSE, ctx |-> ctx]

\* variant: the game is reset whoever disconnects
GameController_routeDisconnect_resetsUnbound(ctx, session_id) ==
    [hadPlayerJoined |-> TRUE, ctx |-> resetGame(ctx, NoPlayer).ctx]

\* routeDisconnect, the block under the context mutex
GameController_routeDisconnect(ctx, session_id) ==
    IF ctx.white = session_id
    THEN [hadPlayerJoined |-> TRUE,
          ctx |-> resetGame([ctx EXCEPT !.white = NoPlayer], NoPlayer).ctx]
    ELSE IF ctx.black = session_id
    THEN [hadPlayerJoined |-> TRUE,
          ctx |-> resetGame([ctx EXCEPT !.black = NoPlayer], NoPlayer).ctx]
    ELSE [hadPlayerJoined |-> FALSE, ctx |-> ctx]

reset_broadcast ==
    [type |-> "game_reset", reason |-> "all_players_disconnected",
     status |-> "Waiting for players..."]

(***************************************************************************)
(* Server and Session: egress fan-out                                      *)
(***************************************************************************)
\* variant: the text goes to the transport whether the session is active or not
Session_send_always(act, r) == TRUE

\* Session::send hands the text to the transport only while the session is active
Session_send(act, r) == act[r]

Server_broadcastToAll(sess, act, r) == r \in sess /\ Session_send(act, r)

Server_broadcastToOthers(sess, act, exclude_session_id, r) ==
    r \in sess /\ r # exclude_session_id /\ Session_send(act, r)

Server_unicastTo(sess, act, session_id, r) ==
    r \in sess /\ r = session_id /\ Session_send(act, r)

\* does session r get the text of egress request e
Receives(sess, act, r, e) ==
    CASE e.kind = "broadcast" ->
             IF e.to_all THEN Server_broadcastToAll(sess, act, r)
                         ELSE Server_broadcastToOthers(sess, act, e.origin, r)
      [] e.kind = "unicast" -> Server_unicastTo(sess, act, e.origin, r)
      [] e.kind = "reply" -> r = e.origin /\ Session_send(act, r)

\* setupSendCallbacks: the broadcast callback takes the message as a json value
\* and sends msg.dump(); the unicast callback converts the json value back to
\* std::string
Server_wire(e) ==
    CASE e.kind = "broadcast" -> dumpJsonString(e.text)
      [] e.kind = "unicast" -> getJsonString(e.text)
      [] e.kind = "reply" -> e.text

\* the texts each session hands to its transport, in order
Outbox(sess, act, events) ==
    [r \in SessionIds |->
        LET sel == SelectSeq(events, LAMBDA e : Receives(sess, act, r, e))
        IN  [i \in 1..Len(sel) |-> Server_wire(sel[i])]]

NoOutput == [r \in SessionIds |-> << >>]

\* the session sends the response of routeMessage if there is one
Session_sendResponse(s, response) == [i \in 1..Len(response) |-> Reply(s, response[i])]

(***************************************************************************)
(* State machine                                                           *)
(***************************************************************************)
\* Session::generateSessionId: "session_" + std::to_string(++counter), as the
\* sequence of its parts
Session_generateSessionId(n) == <<"session_", n>>

\* the filenames of the uploads, as sequences of characters
UploadFilenames == {<<"g">>, <<"g", ":", "h">>}

\* upload_key = session_id + ":" + filename
upload_key(session_id, filename) == session_id \o <<":">> \o filename

UploadKeys ==
    {upload_key(Session_generateSessionId(r), f) : r \in SessionIds, f \in UploadFilenames}

\* a default-constructed UploadState, which is also what operator[] gives for
\* a key that was erased
UploadState == [chunks_received |-> 0, accumulated_data |-> << >>]

NoPlayback == [moves |-> << >>, i |-> 0]

\* the move lists parseGame can return for an uploaded file
FileMoveSeqs == UNION {[1..n -> ParsedMoves] : n \in 0..MaxFileMoves}

JoinMessages == [command : {"join_game"}, single_player : {"true", "false"},
                 color : {"white", "black", "red", "null"}]

ServerInit ==
    /\ current_state_ = "WaitingForPlayers"
    /\ white_player_id_ = NoPlayer
    /\ black_player_id_ = NoPlayer
    /\ board_ = STARTPOS
    /\ moveNumber_ = 1
    /\ sessions = {}
    /\ active = [r \in SessionIds |-> FALSE]
    /\ counter = 0
    /\ pc = [r \in SessionIds |-> "none"]
    /\ sessions_to_cleanup_ = << >>
    /\ playback = [r \in SessionIds |-> NoPlayback]
    /\ file_uploads_ = [r \in SessionIds |-> NoUpload]
    /\ sent = NoOutput
    /\ running = [r \in SessionIds |-> FALSE]
    /\ closes = [r \in SessionIds |-> 0]
    /\ closeCallbacks = [r \in SessionIds |-> << >>]
    /\ upload_data = [k \in UploadKeys |-> UploadState]

\* a reader with nothing on the wire
FramerIdle ==
    /\ wire = << >>
    /\ consumed = << >>
    /\ buffer = << >>
    /\ dispatched = << >>
    /\ handed = << >>
    /\ rpc = "read"

\* the parser main() selects by default, not called
ParserIdle ==
    /\ parser_ = "SimpleNotation"
    /\ game_data = << >>
    /\ move_str = << >>
    /\ result = [has_value |-> FALSE, moves |-> << >>]
    /\ called = "nothing"

\* no thread holds a mutex, no reader thread is handling a message, the
\* cleanup thread sleeps, the server runs
NoThread == 0
NoMessage == [command |-> "none"]

LockIdle ==
    /\ mutex_ = NoThread
    /\ sessions_mutex_ = NoThread
    /\ handling = [r \in SessionIds |-> NoMessage]
    /\ pending = [r \in SessionIds |-> << >>]
    /\ cleanupThread = [at |-> "sleeping", to_cleanup |-> << >>]
    /\ Server_running = TRUE

Init == ServerInit /\ FramerIdle /\ ParserIdle /\ LockIdle

SetCtx(ctx) ==
    /\ current_state_' = ctx.state
    /\ white_player_id_' = ctx.white
    /\ black_player_id_' = ctx.black
    /\ board_' = ctx.board
    /\ moveNumber_' = ctx.moveNumber

\* the chess position stays within the bound of the model
WithinBound(ctx) == Len(ctx.board) <= MaxMoves

\* Server::acceptLoop up to the insertion into the sessions map; the Session
\* constructor mints the id from the static counter
Accept ==
    /\ counter < MaxSessions
    /\ \A r \in SessionIds : pc[r] \notin {"created", "terminated"}
    /\ counter' = counter + 1
    /\ sessions' = sessions \cup {counter + 1}
    /\ pc' = [pc EXCEPT ![counter + 1] = "created"]
    /\ sent' = NoOutput
    /\ UNCHANGED <<ctxvars, active, sessions_to_cleanup_, playback, file_uploads_>>
    /\ UNCHANGED <<framervars, running, parservars, transportvars, upload_data, lockvars>>

\* a transport as constructed: running is false until start; written is
\* what the transport has written to its socket
NewTransport == [running |-> FALSE, written |-> << >>]

\* TcpTransport::send / IpcTransport::send: nothing is written unless running
TcpTransport_send(t, data) ==
    IF ~t.running THEN t ELSE [t EXCEPT !.written = Append(@, data)]

\* TcpTransport::start: running is set and the reader thread is spawned
TcpTransport_start(t) == [t EXCEPT !.running = TRUE]

\* variant: close() shuts the descriptor down whatever the running flag
TcpTransport_close_unguarded(t) ==
    [t EXCEPT !.running = FALSE, !.closes = @ + 1]

\* TcpTransport::close / IpcTransport::close: nothing is done unless
\* running.exchange(false) returns true; shutdown and ::close of fd, fd = -1
TcpTransport_close(t) ==
    IF ~t.running THEN t
    ELSE [t EXCEPT !.running = FALSE, !.closes = @ + 1]

\* variant: the close callback is invoked whenever the reader thread ends
TcpTransport_readerExit_always(connection_closed_by_peer, callbacks, thread) ==
    Append(callbacks, thread)

\* the end of the reader thread, after its loop:
\* if (connection_closed_by_peer && closeCallback_) closeCallback_()
TcpTransport_readerExit(connection_closed_by_peer, callbacks, thread) ==
    IF connection_closed_by_peer THEN Append(callbacks, thread) ELSE callbacks

\* Session::start after active.exchange(true): the handshake is passed to
\* send, which forwards it to the transport, and then the transport is started
Session_start(t, session_id) ==
    LET handshake == [type |-> "session_created", session_id |-> session_id]
    IN  TcpTransport_start(TcpTransport_send(t, dump(handshake)))

\* Session::start, called by the accept loop for the new session; from here
\* on the transport of an active session is running
SessionStart(s) ==
    /\ pc[s] = "created"
    /\ active' = [active EXCEPT ![s] = TRUE]
    /\ pc' = [pc EXCEPT ![s] = "reading"]
    /\ sent' = [NoOutput EXCEPT ![s] = Session_start(NewTransport, s).written]
    /\ running' = [running EXCEPT ![s] = Session_start(NewTransport, s).running]
    /\ UNCHANGED <<ctxvars, sessions, counter, sessions_to_cleanup_, playback, file_uploads_>>
    /\ UNCHANGED <<framervars, parservars, transportvars, upload_data, lockvars>>

\* Session::onReceive / handleMessage for one complete line: route it and send
\* the response
HandleLine(s, msg) ==
    /\ pc[s] = "reading"
    /\ active[s]
    /\ LET res == GameController_routeMessage(Ctx, s, msg)
       IN  /\ WithinBound(res.ctx)
           /\ SetCtx(res.ctx)
           /\ sent' = Outbox(sessions, active, res.egress \o <<Reply(s, dump(res.reply))>>)
    /\ UNCHANGED <<srvvars, file_uploads_>>
    /\ UNCHANGED <<framervars, running, parservars, transportvars, upload_data, lockvars>>

\* the reader thread of session s delivers a line of each command
JoinGame(s) ==
    /\ pc[s] = "reading"
    /\ \E msg \in JoinMessages : HandleLine(s, msg)

StartGame(s) ==
    /\ pc[s] = "reading"
    /\ HandleLine(s, [command |-> "start_game"])

MakeMove(s) ==
    /\ pc[s] = "reading"
    /\ \E m \in MoveStrings : HandleLine(s, [command |-> "make_move", move |-> m])

EndGame(s) ==
    /\ pc[s] = "reading"
    /\ HandleLine(s, [command |-> "end_game"])

DisplayBoard(s) ==
    /\ pc[s] = "reading"
    /\ HandleLine(s, [command |-> "display_board"])

\* lines no command branch accepts: text that is not JSON, JSON without a
\* command, a command that does not exist, make_move without its move
MalformedLines ==
    {[raw |-> "not json"], [other |-> "field"], [command |-> "fly"],
     [command |-> "make_move"]}

MalformedLine(s) ==
    /\ pc[s] = "reading"
    /\ \E msg \in MalformedLines : HandleLine(s, msg)

\* the process is ended by the trap of an integer division by zero: every
\* thread is gone, no connection is served any more
ProcessTerminated ==
    /\ pc' = [r \in SessionIds |-> "terminated"]
    /\ active' = [r \in SessionIds |-> FALSE]
    /\ sessions' = {}
    /\ sessions_to_cleanup_' = << >>
    /\ playback' = [r \in SessionIds |-> NoPlayback]
    /\ file_uploads_' = [r \in SessionIds |-> NoUpload]
    /\ sent' = NoOutput
    /\ running' = [r \in SessionIds |-> FALSE]
    /\ UNCHANGED <<ctxvars, counter>>

\* the sessions with an upload under way: chunks accumulated or file in playback
Uploading == {r \in SessionIds : pc[r] = "playback" \/ file_uploads_[r].present}

\* processFileContent up to its loop: the accumulated data is parsed; with no
\* moves game_complete is unicast and the entry is erased on return, otherwise
\* the playback loop is entered
StartPlayback(s, upload) ==
    \E moves \in FileMoveSeqs :
        IF moves = << >>
        THEN /\ sent' = Outbox(sessions, active,
                               <<Unicast(s, dump([type |-> "game_complete",
                                                  total_moves |-> 0,
                                                  error |-> "No valid moves found. Check file format."]))>>)
             /\ file_uploads_' = [file_uploads_ EXCEPT ![s] = NoUpload]
             /\ UNCHANGED <<pc, playback>>
        ELSE /\ Cardinality(Uploading \ {s}) < MaxPlaybacks
             /\ sent' = NoOutput
             /\ pc' = [pc EXCEPT ![s] = "playback"]
             /\ playback' = [playback EXCEPT ![s] = [moves |-> moves, i |-> 0]]
             /\ file_uploads_' = [file_uploads_ EXCEPT ![s] = upload]

\* an upload_game line: handleFileUploadChunk, and the session's send of the
\* response if one is returned
UploadChunk(s, msg) ==
    /\ pc[s] = "reading"
    /\ active[s]
    /\ UNCHANGED <<framervars, parservars, transportvars, upload_data, lockvars>>
    /\ LET h == GameController_handleFileUploadChunk(file_uploads_[s], msg)
       IN  \/ /\ DivisionByZero(msg)
              /\ ProcessTerminated
           \/ /\ h.complete
              /\ StartPlayback(s, h.upload)
              /\ UNCHANGED <<ctxvars, sessions, active, counter, sessions_to_cleanup_, running>>
           \/ /\ ~h.complete
              /\ h.upload.accumulated_data < MaxChunks
              /\ h.upload.present => Cardinality(Uploading \ {s}) < MaxPlaybacks
              /\ file_uploads_' = [file_uploads_ EXCEPT ![s] = h.upload]
              /\ sent' = Outbox(sessions, active, Session_sendResponse(s, h.response))
              /\ UNCHANGED <<ctxvars, srvvars, running>>

UploadGame(s) ==
    /\ pc[s] = "reading"
    /\ \E msg \in UploadMessages : UploadChunk(s, msg)

\* variant: the loop goes on to the next move after a move that failed
PlaybackStep_skipsFailedMove(s) ==
    /\ pc[s] = "playback"
    /\ LET moves == playback[s].moves
           i == playback[s].i
           move == moves[i + 1]
           res == GameController_handleParsedMove(Ctx, s, move)
           failed == res.reply.type = "error"
           game_complete == ~failed /\ (res.reply.strike.checkmate \/ res.reply.strike.stalemate)
           final_response == [type |-> "game_over",
                              result |-> <<"checkmate", res.reply.strike.color, "wins">>,
                              total_moves |-> i + 1,
                              requested_moves |-> Len(moves)]
           leaves == game_complete \/ i + 1 = Len(moves)
       IN  /\ WithinBound(res.ctx)
           /\ SetCtx(res.ctx)
           /\ sent' = Outbox(sessions, active,
                             res.egress
                             \o (IF failed THEN << >> ELSE <<Unicast(s, dump(res.reply))>>)
                             \o (IF game_complete THEN <<Unicast(s, dump(final_response))>>
                                                  ELSE << >>))
           /\ pc' = [pc EXCEPT ![s] = IF leaves THEN "reading" ELSE "playback"]
           /\ playback' = [playback EXCEPT ![s] =
                              IF leaves THEN NoPlayback ELSE [moves |-> moves, i |-> i + 1]]
           /\ file_uploads_' = IF leaves THEN [file_uploads_ EXCEPT ![s] = NoUpload]
                                         ELSE file_uploads_
    /\ UNCHANGED <<sessions, active, counter, sessions_to_cleanup_>>
    /\ UNCHANGED <<framervars, running, parservars, transportvars, upload_data, lockvars>>

\* one iteration of the playback loop of processFileContent, with the code that
\* follows the loop when the iteration leaves it and the erase of the upload
\* entry that follows the return of processFileContent
PlaybackStep(s) ==
    /\ pc[s] = "playback"
    /\ LET moves == playback[s].moves
           i == playback[s].i
           move == moves[i + 1]
           res == GameController_handleParsedMove(Ctx, s, move)
           failed == res.reply.type = "error"
           game_complete == ~failed /\ (res.reply.strike.checkmate \/ res.reply.strike.stalemate)
           final_response == [type |-> "game_over",
                              result |-> <<"checkmate", res.reply.strike.color, "wins">>,
                              total_moves |-> i + 1,
                              requested_moves |-> Len(moves)]
           leaves == failed \/ game_complete \/ i + 1 = Len(moves)
       IN  /\ WithinBound(res.ctx)
           /\ SetCtx(res.ctx)
           /\ sent' = Outbox(sessions, active,
                             res.egress
                             \o (IF failed THEN << >> ELSE <<Unicast(s, dump(res.reply))>>)
                             \o (IF game_complete THEN <<Unicast(s, dump(final_response))>>
                                                  ELSE << >>))
           /\ pc' = [pc EXCEPT ![s] = IF leaves THEN "reading" ELSE "playback"]
           /\ playback' = [playback EXCEPT ![s] =
                              IF leaves THEN NoPlayback ELSE [moves |-> moves, i |-> i + 1]]
           /\ file_uploads_' = IF leaves THEN [file_uploads_ EXCEPT ![s] = NoUpload]
                                         ELSE file_uploads_
    /\ UNCHANGED <<sessions, active, counter, sessions_to_cleanup_>>
    /\ UNCHANGED <<framervars, running, parservars, transportvars, upload_data, lockvars>>

\* the session's reaction to the close of its transport: it is marked closed
\* and reports its id to the server
Session_onTransportClosed(act, s) == [act EXCEPT ![s] = FALSE]

\* the reader thread reads EOF or an error: the close callback runs
\* Server::handleSessionClosed, which queues the id for cleanup and calls
\* routeDisconnect; this step ends when routeDisconnect releases the context mutex
PeerClose(s) ==
    /\ pc[s] = "reading"
    /\ active' = Session_onTransportClosed(active, s)
    /\ sessions_to_cleanup_' = Append(sessions_to_cleanup_, s)
    /\ LET d == GameController_routeDisconnect(Ctx, s)
       IN  /\ SetCtx(d.ctx)
           /\ pc' = [pc EXCEPT ![s] = IF d.hadPlayerJoined THEN "notify" ELSE "exited"]
    /\ sent' = NoOutput
    /\ running' = [running EXCEPT ![s] = FALSE]
    /\ closeCallbacks' = [closeCallbacks EXCEPT ![s] = TcpTransport_readerExit(TRUE, @, s)]
    /\ UNCHANGED <<sessions, counter, playback, file_uploads_, closes, upload_data>>
    /\ UNCHANGED <<framervars, parservars, lockvars>>

\* routeDisconnect after the context mutex is released: the reset broadcast
DisconnectNotify(s) ==
    /\ pc[s] = "notify"
    /\ sent' = Outbox(sessions, active, <<Broadcast(s, FALSE, dump(reset_broadcast))>>)
    /\ pc' = [pc EXCEPT ![s] = "exited"]
    /\ UNCHANGED <<ctxvars, sessions, active, counter, sessions_to_cleanup_, playback, file_uploads_>>
    /\ UNCHANGED <<framervars, running, parservars, transportvars, upload_data, lockvars>>

\* Server::cleanupClosedSessions with a non-empty queue
CleanupClosedSessions ==
    /\ sessions_to_cleanup_ # << >>
    /\ sessions' = sessions \ {sessions_to_cleanup_[i] : i \in 1..Len(sessions_to_cleanup_)}
    /\ sessions_to_cleanup_' = << >>
    /\ sent' = NoOutput
    /\ UNCHANGED <<ctxvars, active, counter, pc, playback, file_uploads_>>
    /\ UNCHANGED <<framervars, running, parservars, transportvars, upload_data, lockvars>>

Next ==
    \/ Accept
    \/ CleanupClosedSessions
    \/ \E s \in SessionIds :
         \/ SessionStart(s)
         \/ JoinGame(s)
         \/ StartGame(s)
         \/ MakeMove(s)
         \/ EndGame(s)
         \/ DisplayBoard(s)
         \/ MalformedLine(s)
         \/ UploadGame(s)
         \/ PlaybackStep(s)
         \/ PeerClose(s)
         \/ DisconnectNotify(s)

Spec == Init /\ [][Next]_vars

(***************************************************************************)
(* The server with writes that fail.  Spec takes every write() on a        *)
(* connection to succeed; TransportSpec adds the failure of a write to the  *)
(* sessions' joining, playing and disconnecting.                            *)
(***************************************************************************)
\* TcpTransport::send / IpcTransport::send when write() returns -1: the error
\* is logged and running is cleared
TcpTransport_writeError(t) == [t EXCEPT !.running = FALSE]

\* the write of the last text handed to the transport of session s fails
WriteFailure(s) ==
    /\ active[s]
    /\ running[s]
    /\ sent[s] # << >>
    /\ running' = [running EXCEPT ![s] =
                      TcpTransport_writeError([running |-> running[s], written |-> << >>]).running]
    /\ UNCHANGED <<ctxvars, srvvars, file_uploads_, sent>>
    /\ UNCHANGED <<framervars, parservars, transportvars, upload_data, lockvars>>

\* the reader thread of a transport whose running flag was cleared by send:
\* when onReceive has returned, the loop test fails and the thread ends;
\* connection_closed_by_peer is false, so the close callback is not invoked
ReaderStops(s) ==
    /\ pc[s] = "reading"
    /\ ~running[s]
    /\ pc' = [pc EXCEPT ![s] = "stopped"]
    /\ closeCallbacks' = [closeCallbacks EXCEPT ![s] = TcpTransport_readerExit(FALSE, @, s)]
    /\ sent' = NoOutput
    /\ UNCHANGED <<ctxvars, sessions, active, counter, sessions_to_cleanup_, playback,
                   file_uploads_, running, closes, upload_data>>
    /\ UNCHANGED <<framervars, parservars, lockvars>>

\* the sessions join, play and disconnect, and writes to them may fail
TransportNext ==
    \/ Accept
    \/ CleanupClosedSessions
    \/ \E s \in SessionIds :
         \/ SessionStart(s)
         \/ JoinGame(s)
         \/ StartGame(s)
         \/ MakeMove(s)
         \/ EndGame(s)
         \/ PeerClose(s)
         \/ DisconnectNotify(s)
         \/ WriteFailure(s)
         \/ ReaderStops(s)

TransportSpec == Init /\ [][TransportNext]_vars

(***************************************************************************)
(* The framer of one session (TcpTransport reader thread, Session::onReceive, *)
(* Session::handleMessage), on its own: the server variables stay as       *)
(* constructed.                                                            *)
(***************************************************************************)
\* the newline, and the bytes a stream is made of
LF == "LF"
Bytes == {"a", "b", LF}

\* the byte streams a client may send
Streams == UNION {[1..n -> Bytes] : n \in 0..MaxStream}

\* std::string::find('\n'): the index of the first newline, npos if none
npos == 0
find(str) ==
    IF \E i \in 1..Len(str) : str[i] = LF
    THEN CHOOSE i \in 1..Len(str) : str[i] = LF /\ \A j \in 1..(i - 1) : str[j] # LF
    ELSE npos

\* variant: the bytes of a read replace what the buffer held
Session_accumulate_overwrites(buf, raw) == raw

\* onReceive: buffer += raw
Session_accumulate(buf, raw) == buf \o raw

\* onReceive, body of the loop: message = buffer.substr(0, pos);
\* buffer.erase(0, pos + 1)
Session_extract(buf) ==
    LET pos == find(buf)
    IN  [message |-> SubSeq(buf, 1, pos - 1), buffer |-> SubSeq(buf, pos + 1, Len(buf))]

\* variant: handleMessage returns after routeMessage without the send
Session_afterRoute_returns == "loop"

\* handleMessage: routeMessage is followed by the send of its response
Session_afterRoute == "routed"

FramerInit ==
    /\ ServerInit
    /\ ParserIdle
    /\ LockIdle
    /\ wire \in Streams
    /\ consumed = << >>
    /\ buffer = << >>
    /\ dispatched = << >>
    /\ handed = << >>
    /\ rpc = "read"

\* the reader thread: read() returns the next n > 0 bytes of the stream,
\* whatever n the kernel delivers, and onReceive appends them to the buffer
Read ==
    /\ rpc = "read"
    /\ \E n \in 1..MaxRead :
          /\ n <= Len(wire)
          /\ LET raw == SubSeq(wire, 1, n)
             IN  /\ buffer' = Session_accumulate(buffer, raw)
                 /\ consumed' = consumed \o raw
                 /\ wire' = SubSeq(wire, n + 1, Len(wire))
    /\ rpc' = "loop"
    /\ UNCHANGED <<dispatched, handed>>
    /\ UNCHANGED <<ctxvars, srvvars, file_uploads_, sent, running, parservars, transportvars, upload_data, lockvars>>

\* onReceive, loop test true: one message is cut off the buffer and
\* handleMessage passes it to routeMessage
Dispatch ==
    /\ rpc = "loop"
    /\ find(buffer) # npos
    /\ buffer' = Session_extract(buffer).buffer
    /\ dispatched' = Append(dispatched, Session_extract(buffer).message)
    /\ rpc' = Session_afterRoute
    /\ UNCHANGED <<wire, consumed, handed>>
    /\ UNCHANGED <<ctxvars, srvvars, file_uploads_, sent, running, parservars, transportvars, upload_data, lockvars>>

\* handleMessage after routeMessage has returned: the response to the message
\* just dispatched is passed to send (nothing is, when routeMessage returned
\* no response); then the loop test is next
Respond ==
    /\ rpc = "routed"
    /\ \E present \in BOOLEAN :
          handed' = Append(handed, [to |-> dispatched[Len(dispatched)],
                                    n |-> Len(dispatched), present |-> present])
    /\ rpc' = "loop"
    /\ UNCHANGED <<wire, consumed, buffer, dispatched>>
    /\ UNCHANGED <<ctxvars, srvvars, file_uploads_, sent, running, parservars, transportvars, upload_data, lockvars>>

\* onReceive, loop test false: return to the reader thread's read()
Return ==
    /\ rpc = "loop"
    /\ find(buffer) = npos
    /\ rpc' = "read"
    /\ UNCHANGED <<wire, consumed, buffer, dispatched, handed>>
    /\ UNCHANGED <<ctxvars, srvvars, file_uploads_, sent, running, parservars, transportvars, upload_data, lockvars>>

FramerNext == Read \/ Dispatch \/ Respond \/ Return

FramerSpec == FramerInit /\ [][FramerNext]_vars

(***************************************************************************)
(* The notation parsers (IGameParser: SimpleNotationParser over            *)
(* MoveParser, PGNFormatParser over PGNVisitor), on their own: the server  *)
(* variables stay as constructed.                                          *)
(*                                                                         *)
(* A text is the sequence of the lexemes the lexer cuts it into, white     *)
(* space dropped.  A file in simple notation is the sequence of its lines; *)
(* a PGN text is given as the sequence of its parts (tag pair, move        *)
(* number, move, comment, variation, termination marker), which the        *)
(* parser sees concatenated.                                               *)
(***************************************************************************)
\* simple notation: squares, separators, piece letters, rest-of-line comment
COORD == {"e2", "e4", "e7", "e5"}
Separators == {"-", "->", " "}
PieceLetters == {"N"}
COMMENT == {"// c"}

\* the grammar of a strike: optional piece letter, square, separator, square,
\* optional inline comment
SimpleChessGame_strike(line) ==
    LET l1 == IF line # << >> /\ Head(line) \in PieceLetters THEN Tail(line) ELSE line
        l2 == IF l1 # << >> /\ l1[Len(l1)] \in COMMENT THEN SubSeq(l1, 1, Len(l1) - 1) ELSE l1
    IN  /\ Len(l2) = 3
        /\ l2[1] \in COORD
        /\ l2[2] \in Separators
        /\ l2[3] \in COORD

\* a line holding only a comment, a line holding nothing
SimpleChessGame_comment(line) == Len(line) = 1 /\ line[1] \in COMMENT

SimpleChessGame_blank(line) == line = << >>

\* ctx->COORD(): the square tokens of a strike, in order
StrikeCoords(line) == SelectSeq(line, LAMBDA t : t \in COORD)

\* GameVisitor::visitStrike: the two squares of a strike are recorded
GameVisitor_visitStrike(moves, line) ==
    IF Len(StrikeCoords(line)) = 2
    THEN Append(moves, [from |-> StrikeCoords(line)[1], to |-> StrikeCoords(line)[2]])
    ELSE moves

\* MoveParser::parse: the move is parsed as a game of one line; a syntax
\* error, and a game without a strike, give nothing
MoveParser_parse(move) ==
    IF move = << >> THEN << >>
    ELSE IF ~(SimpleChessGame_strike(move) \/ SimpleChessGame_comment(move)) THEN << >>
    ELSE LET moves == IF SimpleChessGame_strike(move)
                      THEN GameVisitor_visitStrike(<< >>, move) ELSE << >>
         IN  IF moves = << >> THEN << >> ELSE <<moves[1]>>

\* variant: a line that does not parse is passed over and parsing goes on
RECURSIVE MoveParser_parseGame_skipsBadLines(_)
MoveParser_parseGame_skipsBadLines(game_content) ==
    IF game_content = << >> THEN << >>
    ELSE LET line == Head(game_content)
             rest == MoveParser_parseGame_skipsBadLines(Tail(game_content))
         IN  IF SimpleChessGame_strike(line)
             THEN GameVisitor_visitStrike(<< >>, line) \o rest
             ELSE rest

\* MoveParser::parseGame: the strikes of the file in order; comment lines and
\* blank lines are passed over, the first line that does not parse ends the
\* parse
RECURSIVE MoveParser_parseGame(_)
MoveParser_parseGame(game_content) ==
    IF game_content = << >> THEN << >>
    ELSE LET line == Head(game_content)
         IN  IF SimpleChessGame_strike(line)
             THEN GameVisitor_visitStrike(<< >>, line)
                      \o MoveParser_parseGame(Tail(game_content))
             ELSE IF SimpleChessGame_comment(line) \/ SimpleChessGame_blank(line)
             THEN MoveParser_parseGame(Tail(game_content))
             ELSE << >>

SimpleNotationParser_convertToGenericMove(move) ==
    [notation |-> <<move.from, "-", move.to>>, from |-> move.from, to |-> move.to,
     is_san |-> FALSE]

nullopt == [has_value |-> FALSE, moves |-> << >>]

SimpleNotationParser_parseGame(data) ==
    LET simple_moves == MoveParser_parseGame(data)
    IN  IF simple_moves = << >> THEN nullopt
        ELSE [has_value |-> TRUE,
              moves |-> [k \in 1..Len(simple_moves) |->
                            SimpleNotationParser_convertToGenericMove(simple_moves[k])]]

SimpleNotationParser_parseMove(str) ==
    LET simple_move == MoveParser_parse(str)
    IN  IF simple_move = << >> THEN nullopt
        ELSE [has_value |-> TRUE,
              moves |-> <<SimpleNotationParser_convertToGenericMove(simple_move[1])>>]

\* PGN.g4, lexer rules: the token type of a lexeme. Of the rules that match
\* the longest lexeme the first one in the grammar wins, so "e4" is a
\* PAWN_MOVE and not a SYMBOL
PGNLexer(lexeme) ==
    CASE lexeme = "1-0" -> "WHITE_WINS"
      [] lexeme = "*" -> "ASTERISK"
      [] lexeme \in {"O-O", "O-O+"} -> "CASTLE_KINGSIDE"
      [] lexeme = "O-O-O" -> "CASTLE_QUEENSIDE"
      [] lexeme \in {"Nf3", "Nc6"} -> "PIECE_MOVE"
      [] lexeme \in {"e4", "e5", "exd5"} -> "PAWN_MOVE"
      [] lexeme = "[" -> "LEFT_BRACKET"
      [] lexeme = "]" -> "RIGHT_BRACKET"
      [] lexeme = "(" -> "LEFT_PAREN"
      [] lexeme = ")" -> "RIGHT_PAREN"
      [] lexeme = "." -> "PERIOD"
      [] lexeme = "\"Local\"" -> "STRING"
      [] lexeme \in {"1", "2"} -> "INTEGER"
      [] lexeme = "{c}" -> "BRACE_COMMENT"
      [] OTHER -> "SYMBOL"

\* the alternatives of the rule san_move
SanTokens == {"CASTLE_KINGSIDE", "CASTLE_QUEENSIDE", "PAWN_MOVE", "PIECE_MOVE"}

\* rule tag_section from token i: the index after the last tag pair
RECURSIVE PGNParser_tag_section(_, _)
PGNParser_tag_section(tokens, i) ==
    IF /\ i + 3 <= Len(tokens)
       /\ PGNLexer(tokens[i]) = "LEFT_BRACKET"
       /\ PGNLexer(tokens[i + 1]) = "SYMBOL"
       /\ PGNLexer(tokens[i + 2]) = "STRING"
       /\ PGNLexer(tokens[i + 3]) = "RIGHT_BRACKET"
    THEN PGNParser_tag_section(tokens, i + 4)
    ELSE i

\* rule move_number_indication (INTEGER PERIOD PERIOD? PERIOD?) from token i,
\* an INTEGER: the index after its periods, or i where no period follows
PGNParser_move_number_indication(tokens, i) ==
    LET period(j) == j <= Len(tokens) /\ PGNLexer(tokens[j]) = "PERIOD"
    IN  IF ~period(i + 1) THEN i
        ELSE IF ~period(i + 2) THEN i + 2
        ELSE IF ~period(i + 3) THEN i + 3
        ELSE i + 4

\* rule element_sequence from token i, with PGNVisitor::visitPgn_game and
\* visitElement applied to it: the moves that are elements of the sequence
\* itself are appended, those inside a recursive variation are not visited.
\* Gives the index of the token that ends the sequence
RECURSIVE PGNParser_element_sequence(_, _, _, _)
PGNParser_element_sequence(tokens, i, depth, moves) ==
    IF i > Len(tokens) THEN [i |-> i, moves |-> moves]
    ELSE LET type == PGNLexer(tokens[i])
         IN  IF type = "INTEGER" /\ PGNParser_move_number_indication(tokens, i) > i
             THEN PGNParser_element_sequence(
                      tokens, PGNParser_move_number_indication(tokens, i), depth, moves)
             ELSE IF type \in SanTokens
             THEN PGNParser_element_sequence(
                      tokens, i + 1, depth,
                      IF depth = 0 THEN Append(moves, [san |-> tokens[i]]) ELSE moves)
             ELSE IF type = "BRACE_COMMENT"
             THEN PGNParser_element_sequence(tokens, i + 1, depth, moves)
             ELSE IF type = "LEFT_PAREN"
             THEN LET inner == PGNParser_element_sequence(tokens, i + 1, depth + 1, moves)
                  IN  PGNParser_element_sequence(tokens, inner.i + 1, depth, inner.moves)
             ELSE [i |-> i, moves |-> moves]

PGNFormatParser_convertToGenericMove(move) ==
    [notation |-> <<move.san>>, from |-> "", to |-> "", is_san |-> TRUE]

\* the lexemes of a PGN text given by its parts
RECURSIVE Concat(_)
Concat(parts) == IF parts = << >> THEN << >> ELSE Head(parts) \o Concat(Tail(parts))

\* PGNFormatParser::parseGame: rule parse (pgn_game EOF), then the visitor;
\* the game data is set by visitFullGame, so a value is always returned
PGNFormatParser_parseGame(data) ==
    LET tokens == Concat(data)
        seq == PGNParser_element_sequence(tokens, PGNParser_tag_section(tokens, 1), 0, << >>)
    IN  [has_value |-> TRUE,
         moves |-> [k \in 1..Len(seq.moves) |->
                       PGNFormatParser_convertToGenericMove(seq.moves[k])]]

\* PGNFormatParser::parseMove: rule san_move is applied to the text, it takes
\* the first token if that is a move and leaves what follows unread; the
\* visitor records the move of the rule
PGNFormatParser_parseMove(str) ==
    IF str # << >> /\ PGNLexer(str[1]) \in SanTokens
    THEN [has_value |-> TRUE,
          moves |-> <<PGNFormatParser_convertToGenericMove([san |-> str[1]])>>]
    ELSE nullopt

\* the files of at most MaxLines lines in simple notation
SimpleLines ==
    {<<"e2", "-", "e4">>, <<"e7", "->", "e5">>, <<"N", "e2", " ", "e4">>,
     <<"e7", "-", "e5", "// c">>, <<"// c">>, << >>, <<"invalid">>, <<"e2", "-">>}

SimpleFiles == UNION {[1..n -> SimpleLines] : n \in 0..MaxLines}

\* the well-formed PGN texts: at most one tag pair, at most MaxElements parts
\* of movetext, an optional termination marker
PGNElements ==
    {<<"1", ".">>, <<"1", ".", ".", ".">>, <<"e4">>, <<"Nf3">>, <<"O-O">>, <<"{c}">>,
     <<"(", "e5", ")">>}

PGNTagSections == {<< >>, << <<"[", "Site", "\"Local\"", "]">> >>}

PGNTerminations == {<< >>, << <<"1-0">> >>}

PGNGames ==
    {tags \o elements \o termination :
        tags \in PGNTagSections,
        elements \in UNION {[1..n -> PGNElements] : n \in 0..MaxElements},
        termination \in PGNTerminations}

\* the strings passed to parseMove
SimpleMoveStrings == SimpleLines \cup {<<"e2", "-", "e4", "e5">>}

PGNMoveStrings ==
    {<<"e4">>, <<"exd5">>, <<"Nf3">>, <<"O-O">>, <<"O-O-O">>, <<"O-O+">>, <<"invalid123">>,
     << >>, <<"1", ".">>, <<"e4", "e5">>, <<"e4", "invalid123">>}

\* IGameParser dispatch on the parser the factory created
IGameParser_parseGame(parser, data) ==
    IF parser = "PGN" THEN PGNFormatParser_parseGame(data)
                      ELSE SimpleNotationParser_parseGame(data)

IGameParser_parseMove(parser, str) ==
    IF parser = "PGN" THEN PGNFormatParser_parseMove(str)
                      ELSE SimpleNotationParser_parseMove(str)

\* ParserFactory::createParser, and the arguments the parser will be given
ParserInit ==
    /\ ServerInit
    /\ FramerIdle
    /\ LockIdle
    /\ parser_ \in {"SimpleNotation", "PGN"}
    /\ game_data \in IF parser_ = "PGN" THEN PGNGames ELSE SimpleFiles
    /\ move_str \in IF parser_ = "PGN" THEN PGNMoveStrings ELSE SimpleMoveStrings
    /\ result = nullopt
    /\ called = "nothing"

ParseGame ==
    /\ called = "nothing"
    /\ result' = IGameParser_parseGame(parser_, game_data)
    /\ called' = "parseGame"
    /\ UNCHANGED <<parser_, game_data, move_str>>
    /\ UNCHANGED <<ctxvars, srvvars, file_uploads_, sent, running, framervars, lockvars, transportvars, upload_data>>

ParseMove ==
    /\ called = "nothing"
    /\ result' = IGameParser_parseMove(parser_, move_str)
    /\ called' = "parseMove"
    /\ UNCHANGED <<parser_, game_data, move_str>>
    /\ UNCHANGED <<ctxvars, srvvars, file_uploads_, sent, running, framervars, lockvars, transportvars, upload_data>>

ParserNext == ParseGame \/ ParseMove

ParserSpec == ParserInit /\ [][ParserNext]_vars

(***************************************************************************)
(* Threads and locks.  Spec takes the handling of a line as one step;      *)
(* ThreadSpec follows each thread from one lock operation to the next: a   *)
(* reader thread dispatches a message, waits for the context mutex,        *)
(* runs the handler and the egress it makes under the sessions mutex,      *)
(* releases, and sends what it sends after the release. The accept thread,  *)
(* the cleanup thread and Server::stop take the sessions mutex. The        *)
(* reader thread of session s is thread s. cleanup_mutex_ is only taken     *)
(* around one vector operation and held across no call, so it is not a     *)
(* variable.                                                               *)
(***************************************************************************)
CleanupThreadId == MaxSessions + 1

\* variant: the guard is constructed without waiting for the mutex
lock_guard_noWait(mutex) == TRUE

\* std::lock_guard<std::mutex>: the constructor returns once the mutex is free
lock_guard(mutex) == mutex = NoThread

\* the commands that reach a context handler, and the close of the connection
ThreadCommands ==
    {[command |-> "join_game", single_player |-> "false", color |-> "white"],
     [command |-> "join_game", single_player |-> "false", color |-> "black"],
     [command |-> "join_game", single_player |-> "true", color |-> "white"],
     [command |-> "start_game"],
     [command |-> "make_move", move |-> "quiet"],
     [command |-> "end_game"],
     [command |-> "display_board"]}

Disconnect == [command |-> "disconnect"]

\* the chunks of an upload with its chunk numbers in range
ThreadUploads ==
    {m \in UploadMessages :
        m.metadata = "ok" /\ m.chunk_current >= 1 /\ m.chunk_current <= m.chunks_total}

ThreadFileMoves == UNION {[1..n -> {"quiet"}] : n \in 0..MaxFileMoves}

\* the moves the threads have still to pass to the context: keeps the game
\* within MaxMoves
MovesUnderWay ==
    LET n(r) == IF pc[r] \in {"lock", "handler", "egress"}
                THEN IF handling[r].command = "make_move" THEN 1
                     ELSE IF handling[r].command = "upload_game"
                     THEN Len(playback[r].moves) - playback[r].i
                     ELSE 0
                ELSE 0
        RECURSIVE sum(_)
        sum(S) == IF S = {} THEN 0
                  ELSE LET r == CHOOSE x \in S : TRUE IN n(r) + sum(S \ {r})
    IN  sum(SessionIds)

MoveBudget == MaxMoves - Len(board_) - MovesUnderWay

\* what the thread that holds the context mutex does in its handler: the new
\* context, the egress made inside the lock, the response sent by the
\* session, the egress made after the release, and where the thread goes on
HandlerResult(s) ==
    IF handling[s].command = "disconnect"
    THEN LET d == GameController_routeDisconnect(Ctx, s)
             after == IF d.hadPlayerJoined
                      THEN <<Broadcast(s, FALSE, dump(reset_broadcast))>> ELSE << >>
         IN  [ctx |-> d.ctx, inside |-> << >>, reply |-> << >>, after |-> after,
              playback |-> playback[s],
              next |-> IF after # << >> THEN "egress" ELSE "exited"]
    ELSE IF handling[s].command = "upload_game"
    THEN LET moves == playback[s].moves
             i == playback[s].i
             res == GameController_handleParsedMove(Ctx, s, moves[i + 1])
             failed == res.reply.type = "error"
             game_complete == ~failed /\ (res.reply.strike.checkmate
                                            \/ res.reply.strike.stalemate)
             final_response == [type |-> "game_over",
                                result |-> <<"checkmate", res.reply.strike.color, "wins">>,
                                total_moves |-> i + 1,
                                requested_moves |-> Len(moves)]
             leaves == failed \/ game_complete \/ i + 1 = Len(moves)
             after == (IF failed THEN << >> ELSE <<Unicast(s, dump(res.reply))>>)
                      \o (IF game_complete THEN <<Unicast(s, dump(final_response))>>
                                           ELSE << >>)
         IN  [ctx |-> res.ctx, inside |-> res.egress, reply |-> << >>, after |-> after,
              playback |-> IF leaves THEN NoPlayback ELSE [moves |-> moves, i |-> i + 1],
              next |-> IF after # << >> THEN "egress" ELSE "erase"]
    ELSE LET res == GameController_routeMessage(Ctx, s, handling[s])
         IN  [ctx |-> res.ctx, inside |-> res.egress,
              reply |-> <<Reply(s, dump(res.reply))>>, after |-> << >>,
              playback |-> playback[s], next |-> "reading"]

\* Session::onReceive has a complete line of a command: handleMessage parses
\* it and enters the handler, which constructs its lock_guard
Reader_dispatch(s) ==
    /\ pc[s] = "reading"
    /\ active[s]
    /\ \E m \in ThreadCommands :
          /\ m.command = "make_move" => MoveBudget >= 1
          /\ handling' = [handling EXCEPT ![s] = m]
    /\ pc' = [pc EXCEPT ![s] = "lock"]
    /\ sent' = NoOutput
    /\ UNCHANGED <<ctxvars, sessions, active, counter, sessions_to_cleanup_, playback>>
    /\ UNCHANGED <<file_uploads_, running, framervars, parservars, transportvars, upload_data>>
    /\ UNCHANGED <<mutex_, sessions_mutex_, pending, cleanupThread, Server_running>>

\* the lock_guard on the context mutex is constructed
Reader_lock(s) ==
    /\ pc[s] = "lock"
    /\ lock_guard(mutex_)
    /\ mutex_' = s
    /\ pc' = [pc EXCEPT ![s] = "handler"]
    /\ sent' = NoOutput
    /\ UNCHANGED <<ctxvars, sessions, active, counter, sessions_to_cleanup_, playback>>
    /\ UNCHANGED <<file_uploads_, running, framervars, parservars, transportvars, upload_data>>
    /\ UNCHANGED <<sessions_mutex_, handling, pending, cleanupThread, Server_running>>

\* the context handler runs (its broadcasts take the sessions mutex for the
\* time of the sends), the lock_guard is destroyed, and the session sends
\* the response
Reader_handle(s) ==
    /\ pc[s] = "handler"
    /\ LET h == HandlerResult(s)
       IN  /\ h.inside = << >> \/ lock_guard(sessions_mutex_)
           /\ SetCtx(h.ctx)
           /\ sent' = Outbox(sessions, active, h.inside \o h.reply)
           /\ pending' = [pending EXCEPT ![s] = h.after]
           /\ playback' = [playback EXCEPT ![s] = h.playback]
           /\ pc' = [pc EXCEPT ![s] = h.next]
           /\ handling' = [handling EXCEPT ![s] = IF h.next = "reading" THEN NoMessage ELSE @]
    /\ mutex_' = NoThread
    /\ UNCHANGED <<sessions, active, counter, sessions_to_cleanup_>>
    /\ UNCHANGED <<file_uploads_, running, framervars, parservars, transportvars, upload_data>>
    /\ UNCHANGED <<sessions_mutex_, cleanupThread, Server_running>>

\* the egress a thread makes holding no context mutex: the game_reset
\* broadcast of routeDisconnect, the unicasts of processFileContent
Reader_egress(s) ==
    /\ pc[s] = "egress"
    /\ lock_guard(sessions_mutex_)
    /\ sent' = Outbox(sessions, active, pending[s])
    /\ pending' = [pending EXCEPT ![s] = << >>]
    /\ pc' = [pc EXCEPT ![s] = IF handling[s].command = "disconnect" THEN "exited"
                               ELSE IF playback[s] = NoPlayback THEN "erase"
                               ELSE "lock"]
    /\ UNCHANGED <<ctxvars, sessions, active, counter, sessions_to_cleanup_, playback>>
    /\ UNCHANGED <<file_uploads_, running, framervars, parservars, transportvars, upload_data>>
    /\ UNCHANGED <<mutex_, sessions_mutex_, handling, cleanupThread, Server_running>>

\* read() returns 0 or an error: the close callback runs
\* Server::handleSessionClosed on the reader thread, which queues the id
\* under cleanup_mutex_ and calls routeDisconnect
Reader_closed(s) ==
    /\ pc[s] = "reading"
    /\ active' = Session_onTransportClosed(active, s)
    /\ running' = [running EXCEPT ![s] = FALSE]
    /\ sessions_to_cleanup_' = Append(sessions_to_cleanup_, s)
    /\ handling' = [handling EXCEPT ![s] = Disconnect]
    /\ closeCallbacks' = [closeCallbacks EXCEPT ![s] = TcpTransport_readerExit(TRUE, @, s)]
    /\ pc' = [pc EXCEPT ![s] = "lock"]
    /\ sent' = NoOutput
    /\ UNCHANGED <<ctxvars, sessions, counter, playback>>
    /\ UNCHANGED <<file_uploads_, framervars, parservars, closes, upload_data>>
    /\ UNCHANGED <<mutex_, sessions_mutex_, pending, cleanupThread, Server_running>>

\* an upload_game line: handleFileUploadChunk enters file_uploads_[upload_key]
Reader_upload(s) ==
    /\ pc[s] = "reading"
    /\ active[s]
    /\ \E m \in ThreadUploads :
          LET h == GameController_handleFileUploadChunk(file_uploads_[s], m)
          IN  /\ h.complete \/ h.upload.accumulated_data < MaxChunks
              /\ handling' = [handling EXCEPT ![s] = m]
    /\ pc' = [pc EXCEPT ![s] = "table"]
    /\ sent' = NoOutput
    /\ UNCHANGED <<ctxvars, sessions, active, counter, sessions_to_cleanup_, playback>>
    /\ UNCHANGED <<file_uploads_, running, framervars, parservars, transportvars, upload_data>>
    /\ UNCHANGED <<mutex_, sessions_mutex_, pending, cleanupThread, Server_running>>

\* the threads inside an operation on the table file_uploads_
InTable == {r \in SessionIds : pc[r] \in {"table", "erase"}}

\* file_uploads_[upload_key] has returned: the chunk is recorded; an
\* intermediate chunk is acknowledged, the last one starts processFileContent
Reader_tableDone(s) ==
    /\ pc[s] = "table"
    /\ LET h == GameController_handleFileUploadChunk(file_uploads_[s], handling[s])
       IN  /\ file_uploads_' = [file_uploads_ EXCEPT ![s] = h.upload]
           /\ IF ~h.complete
              THEN /\ sent' = Outbox(sessions, active, Session_sendResponse(s, h.response))
                   /\ pc' = [pc EXCEPT ![s] = "reading"]
                   /\ handling' = [handling EXCEPT ![s] = NoMessage]
                   /\ UNCHANGED <<playback, pending>>
              ELSE \E moves \in ThreadFileMoves :
                      /\ Len(moves) <= MoveBudget
                      /\ sent' = NoOutput
                      /\ UNCHANGED handling
                      /\ IF moves = << >>
                         THEN /\ pending' = [pending EXCEPT ![s] =
                                    <<Unicast(s, dump([type |-> "game_complete",
                                                       total_moves |-> 0,
                                                       error |-> "No valid moves found. Check file format."]))>>]
                              /\ pc' = [pc EXCEPT ![s] = "egress"]
                              /\ UNCHANGED playback
                         ELSE /\ playback' = [playback EXCEPT ![s] = [moves |-> moves, i |-> 0]]
                              /\ pc' = [pc EXCEPT ![s] = "lock"]
                              /\ UNCHANGED pending
    /\ UNCHANGED <<ctxvars, sessions, active, counter, sessions_to_cleanup_>>
    /\ UNCHANGED <<running, framervars, parservars, transportvars, upload_data>>
    /\ UNCHANGED <<mutex_, sessions_mutex_, cleanupThread, Server_running>>

\* processFileContent has returned: file_uploads_.erase(upload_key)
Reader_erase(s) ==
    /\ pc[s] = "erase"
    /\ file_uploads_' = [file_uploads_ EXCEPT ![s] = NoUpload]
    /\ pc' = [pc EXCEPT ![s] = "reading"]
    /\ handling' = [handling EXCEPT ![s] = NoMessage]
    /\ sent' = NoOutput
    /\ UNCHANGED <<ctxvars, sessions, active, counter, sessions_to_cleanup_, playback>>
    /\ UNCHANGED <<running, framervars, parservars, transportvars, upload_data>>
    /\ UNCHANGED <<mutex_, sessions_mutex_, pending, cleanupThread, Server_running>>

\* two threads operate on the unordered_map at once: the behaviour is
\* undefined; the operations may come out as if one followed the other (the
\* steps above) or the process may be ended by the corrupted table
TableRace ==
    /\ Cardinality(InTable) >= 2
    /\ ProcessTerminated
    /\ mutex_' = NoThread
    /\ sessions_mutex_' = NoThread
    /\ handling' = [r \in SessionIds |-> NoMessage]
    /\ pending' = [r \in SessionIds |-> << >>]
    /\ cleanupThread' = [at |-> "returned", to_cleanup |-> << >>]
    /\ Server_running' = FALSE
    /\ UNCHANGED <<framervars, parservars, transportvars, upload_data>>

\* Server::cleanupLoop after its sleep, cleanupClosedSessions up to the
\* lock_guard on the sessions mutex: the queue is moved to a local vector
\* under cleanup_mutex_; with an empty queue the function returns, and the
\* loop ends if the server was stopped
Cleanup_wake ==
    /\ cleanupThread.at = "sleeping"
    /\ IF sessions_to_cleanup_ = << >>
       THEN /\ ~Server_running
            /\ cleanupThread' = [at |-> "returned", to_cleanup |-> << >>]
            /\ UNCHANGED sessions_to_cleanup_
       ELSE /\ cleanupThread' = [at |-> "lock", to_cleanup |-> sessions_to_cleanup_]
            /\ sessions_to_cleanup_' = << >>
    /\ sent' = NoOutput
    /\ UNCHANGED <<ctxvars, sessions, active, counter, pc, playback>>
    /\ UNCHANGED <<file_uploads_, running, framervars, parservars, transportvars, upload_data>>
    /\ UNCHANGED <<mutex_, sessions_mutex_, handling, pending, Server_running>>

Cleanup_lock ==
    /\ cleanupThread.at = "lock"
    /\ lock_guard(sessions_mutex_)
    /\ sessions_mutex_' = CleanupThreadId
    /\ cleanupThread' = [cleanupThread EXCEPT !.at = "erasing"]
    /\ sent' = NoOutput
    /\ UNCHANGED <<ctxvars, srvvars>>
    /\ UNCHANGED <<file_uploads_, running, framervars, parservars, transportvars, upload_data>>
    /\ UNCHANGED <<mutex_, handling, pending, Server_running>>

\* std::jthread::~jthread joins: it returns when the thread has ended
jthread_join(s) == pc[s] = "exited"

\* sessions.erase(it) for the next id of the local vector: the map held the
\* last shared_ptr, so the Session and its transport are destroyed here, and
\* the transport's reader thread is joined, all under the sessions mutex
Cleanup_erase ==
    /\ cleanupThread.at = "erasing"
    /\ cleanupThread.to_cleanup # << >>
    /\ LET session_id == Head(cleanupThread.to_cleanup)
       IN  /\ session_id \in sessions => jthread_join(session_id)
           /\ sessions' = sessions \ {session_id}
    /\ cleanupThread' = [cleanupThread EXCEPT !.to_cleanup = Tail(@)]
    /\ sent' = NoOutput
    /\ UNCHANGED <<ctxvars, active, counter, pc, sessions_to_cleanup_, playback>>
    /\ UNCHANGED <<file_uploads_, running, framervars, parservars, transportvars, upload_data>>
    /\ UNCHANGED <<mutex_, sessions_mutex_, handling, pending, Server_running>>

\* cleanupClosedSessions returns, the lock_guard is destroyed; the loop
\* sleeps again or, after stop, ends
Cleanup_unlock ==
    /\ cleanupThread.at = "erasing"
    /\ cleanupThread.to_cleanup = << >>
    /\ sessions_mutex_' = NoThread
    /\ cleanupThread' = [cleanupThread EXCEPT
                            !.at = IF Server_running THEN "sleeping" ELSE "returned"]
    /\ sent' = NoOutput
    /\ UNCHANGED <<ctxvars, srvvars>>
    /\ UNCHANGED <<file_uploads_, running, framervars, parservars, transportvars, upload_data>>
    /\ UNCHANGED <<mutex_, handling, pending, Server_running>>

\* Server::stop: running is cleared and, under the sessions mutex, every
\* session of the map is closed (Session::close, transport close: the socket
\* is shut down, which ends the read() of its reader thread)
Server_stop ==
    /\ Server_running
    /\ lock_guard(sessions_mutex_)
    /\ Server_running' = FALSE
    /\ active' = [r \in SessionIds |-> active[r] /\ r \notin sessions]
    /\ running' = [r \in SessionIds |-> running[r] /\ ~(r \in sessions /\ active[r])]
    /\ closes' = [r \in SessionIds |->
                     IF r \in sessions /\ active[r]
                     THEN TcpTransport_close([running |-> running[r], closes |-> closes[r]]).closes
                     ELSE closes[r]]
    /\ sent' = NoOutput
    /\ UNCHANGED <<ctxvars, sessions, counter, pc, sessions_to_cleanup_, playback>>
    /\ UNCHANGED <<file_uploads_, framervars, parservars, closeCallbacks, upload_data>>
    /\ UNCHANGED <<mutex_, sessions_mutex_, handling, pending, cleanupThread>>

\* Server::acceptLoop: the new session is put into the map under the
\* sessions mutex
AcceptLoop ==
    /\ Server_running
    /\ lock_guard(sessions_mutex_)
    /\ Accept

ThreadNext ==
    \/ AcceptLoop
    \/ Cleanup_wake
    \/ Cleanup_lock
    \/ Cleanup_erase
    \/ Cleanup_unlock
    \/ Server_stop
    \/ TableRace
    \/ \E s \in SessionIds :
         \/ SessionStart(s)
         \/ Reader_dispatch(s)
         \/ Reader_lock(s)
         \/ Reader_handle(s)
         \/ Reader_egress(s)
         \/ Reader_closed(s)
         \/ Reader_upload(s)
         \/ Reader_tableDone(s)
         \/ Reader_erase(s)

ThreadSpec == Init /\ [][ThreadNext]_vars

(***************************************************************************)
(* One make_move command statement by statement: the lock_guard of          *)
(* GameController::handleMoveRequest, InProgressState::handleMoveRequest    *)
(* (applyMove, transitionTo, broadcastToOthers, return), the release of the *)
(* context mutex and the send of the response by Session::handleMessage.    *)
(* The other commands are taken whole, while no thread holds the mutex.     *)
(***************************************************************************)
\* the reader thread of session s has a make_move line; handleMoveRequest
\* constructs its lock_guard on the context mutex
Move_dispatch(s) ==
    /\ pc[s] = "reading"
    /\ active[s]
    /\ lock_guard(mutex_)
    /\ mutex_' = s
    /\ \E m \in ParsedMoves :
          handling' = [handling EXCEPT ![s] = [command |-> "make_move", move |-> m]]
    /\ pc' = [pc EXCEPT ![s] = "apply"]
    /\ sent' = NoOutput
    /\ UNCHANGED <<ctxvars, sessions, active, counter, sessions_to_cleanup_, playback>>
    /\ UNCHANGED <<file_uploads_, running, framervars, parservars, transportvars, upload_data>>
    /\ UNCHANGED <<sessions_mutex_, pending, cleanupThread, Server_running>>

\* the state object's handleMoveRequest up to the test of the report: the
\* move is applied to the chess model and the response is built; in a state
\* other than InProgress, or for a move that is refused, the error is returned
Move_apply(s) ==
    /\ pc[s] = "apply"
    /\ LET res == GameController_routeMessage(Ctx, s, handling[s])
       IN  /\ WithinBound(res.ctx)
           /\ board_' = res.ctx.board
           /\ moveNumber_' = res.ctx.moveNumber
           /\ pending' = [pending EXCEPT ![s] = res.egress \o <<Reply(s, dump(res.reply))>>]
           /\ pc' = [pc EXCEPT ![s] = IF res.ctx.state # current_state_ THEN "transition"
                                      ELSE IF res.egress # << >> THEN "broadcast"
                                      ELSE "return"]
    /\ sent' = NoOutput
    /\ UNCHANGED <<current_state_, white_player_id_, black_player_id_>>
    /\ UNCHANGED <<sessions, active, counter, sessions_to_cleanup_, playback>>
    /\ UNCHANGED <<file_uploads_, running, framervars, parservars, transportvars, upload_data>>
    /\ UNCHANGED <<mutex_, sessions_mutex_, handling, cleanupThread, Server_running>>

\* if (is_checkmate || is_stalemate) context->transitionTo(GameOverState)
Move_transition(s) ==
    /\ pc[s] = "transition"
    /\ current_state_' = transitionTo(Ctx, "GameOver").state
    /\ pc' = [pc EXCEPT ![s] = "broadcast"]
    /\ sent' = NoOutput
    /\ UNCHANGED <<white_player_id_, black_player_id_, board_, moveNumber_>>
    /\ UNCHANGED <<sessions, active, counter, sessions_to_cleanup_, playback>>
    /\ UNCHANGED <<file_uploads_, running, framervars, parservars, transportvars, upload_data, lockvars>>

\* context->broadcastToOthers(player_id, response.dump())
Move_broadcast(s) ==
    /\ pc[s] = "broadcast"
    /\ sent' = Outbox(sessions, active, <<Head(pending[s])>>)
    /\ pending' = [pending EXCEPT ![s] = Tail(@)]
    /\ pc' = [pc EXCEPT ![s] = "return"]
    /\ UNCHANGED <<ctxvars, sessions, active, counter, sessions_to_cleanup_, playback>>
    /\ UNCHANGED <<file_uploads_, running, framervars, parservars, transportvars, upload_data>>
    /\ UNCHANGED <<mutex_, sessions_mutex_, handling, cleanupThread, Server_running>>

\* the handler returns the response: the lock_guard is destroyed
Move_return(s) ==
    /\ pc[s] = "return"
    /\ mutex_' = NoThread
    /\ pc' = [pc EXCEPT ![s] = "respond"]
    /\ sent' = NoOutput
    /\ UNCHANGED <<ctxvars, sessions, active, counter, sessions_to_cleanup_, playback>>
    /\ UNCHANGED <<file_uploads_, running, framervars, parservars, transportvars, upload_data>>
    /\ UNCHANGED <<sessions_mutex_, handling, pending, cleanupThread, Server_running>>

\* Session::handleMessage sends the response to the requesting client
Move_respond(s) ==
    /\ pc[s] = "respond"
    /\ sent' = Outbox(sessions, active, pending[s])
    /\ pending' = [pending EXCEPT ![s] = << >>]
    /\ handling' = [handling EXCEPT ![s] = NoMessage]
    /\ pc' = [pc EXCEPT ![s] = "reading"]
    /\ UNCHANGED <<ctxvars, sessions, active, counter, sessions_to_cleanup_, playback>>
    /\ UNCHANGED <<file_uploads_, running, framervars, parservars, transportvars, upload_data>>
    /\ UNCHANGED <<mutex_, sessions_mutex_, cleanupThread, Server_running>>

MoveNext ==
    \/ Accept
    \/ \E s \in SessionIds :
         \/ SessionStart(s)
         \/ lock_guard(mutex_) /\ JoinGame(s)
         \/ lock_guard(mutex_) /\ StartGame(s)
         \/ lock_guard(mutex_) /\ EndGame(s)
         \/ Move_dispatch(s)
         \/ Move_apply(s)
         \/ Move_transition(s)
         \/ Move_broadcast(s)
         \/ Move_return(s)
         \/ Move_respond(s)

MoveSpec == Init /\ [][MoveNext]_vars

(***************************************************************************)
(* The life of a transport: its reader thread read by read, close() called  *)
(* from other threads (Server::stop, the destructors), sends from any       *)
(* thread, writes that fail.                                                *)
(***************************************************************************)
\* the transport of session s as the operators below take it
Transport(s) == [running |-> running[s], closes |-> closes[s], written |-> << >>]

\* Session::close: nothing is done unless active.exchange(false) returns
\* true; then the transport is closed
Session_close(s) ==
    /\ s \in sessions
    /\ active' = [active EXCEPT ![s] = FALSE]
    /\ LET t == IF active[s] THEN TcpTransport_close(Transport(s)) ELSE Transport(s)
       IN  /\ running' = [running EXCEPT ![s] = t.running]
           /\ closes' = [closes EXCEPT ![s] = t.closes]
    /\ sent' = NoOutput
    /\ UNCHANGED <<ctxvars, sessions, counter, pc, sessions_to_cleanup_, playback>>
    /\ UNCHANGED <<file_uploads_, closeCallbacks, framervars, parservars, lockvars, upload_data>>

\* ~TcpTransport: close() on the transport itself
TcpTransport_destructor(s) ==
    /\ s \in sessions
    /\ ~active[s]
    /\ pc[s] # "created"
    /\ LET t == TcpTransport_close(Transport(s))
       IN  /\ running' = [running EXCEPT ![s] = t.running]
           /\ closes' = [closes EXCEPT ![s] = t.closes]
    /\ sent' = NoOutput
    /\ UNCHANGED <<ctxvars, srvvars, file_uploads_, closeCallbacks, upload_data>>
    /\ UNCHANGED <<framervars, parservars, lockvars>>

\* Session::send from any thread (a response, a broadcast): the text goes to
\* the transport while the session is active, and is written while the
\* transport is running
Session_sendText(s) ==
    /\ s \in sessions
    /\ sent' = [NoOutput EXCEPT ![s] =
                   IF Session_send(active, s)
                   THEN TcpTransport_send(Transport(s), dump([type |-> "board_display"])).written
                   ELSE << >>]
    /\ UNCHANGED <<ctxvars, srvvars, file_uploads_, running, transportvars, upload_data>>
    /\ UNCHANGED <<framervars, parservars, lockvars>>

\* the reader thread passes the loop test and calls read()
Reader_read(s) ==
    /\ pc[s] = "reading"
    /\ running[s]
    /\ pc' = [pc EXCEPT ![s] = "read"]
    /\ sent' = NoOutput
    /\ UNCHANGED <<ctxvars, sessions, active, counter, sessions_to_cleanup_, playback>>
    /\ UNCHANGED <<file_uploads_, running, transportvars, upload_data, framervars, parservars, lockvars>>

\* read() returns n > 0 and onReceive(payload) runs; after close() the
\* descriptor number read from fd, which close() writes without
\* synchronisation, may be the one of a later connection, so that bytes
\* arrive here as well
Reader_onReceive(s) ==
    /\ pc[s] = "read"
    /\ pc' = [pc EXCEPT ![s] = "reading"]
    /\ sent' = NoOutput
    /\ UNCHANGED <<ctxvars, sessions, active, counter, sessions_to_cleanup_, playback>>
    /\ UNCHANGED <<file_uploads_, running, transportvars, upload_data, framervars, parservars, lockvars>>

\* read() returns 0 (the peer closed, or the descriptor was shut down by
\* close()) or -1: connection_closed_by_peer = true, running = false, break
Reader_readFails(s) ==
    /\ pc[s] = "read"
    /\ running' = [running EXCEPT ![s] = FALSE]
    /\ pc' = [pc EXCEPT ![s] = "closed_by_peer"]
    /\ sent' = NoOutput
    /\ UNCHANGED <<ctxvars, sessions, active, counter, sessions_to_cleanup_, playback>>
    /\ UNCHANGED <<file_uploads_, transportvars, upload_data, framervars, parservars, lockvars>>

\* after the loop: if (connection_closed_by_peer && closeCallback_)
\* closeCallback_(), which is Server::handleSessionClosed
Reader_closeCallback(s) ==
    /\ pc[s] = "closed_by_peer"
    /\ closeCallbacks' = [closeCallbacks EXCEPT ![s] = TcpTransport_readerExit(TRUE, @, s)]
    /\ active' = Session_onTransportClosed(active, s)
    /\ sessions_to_cleanup_' = Append(sessions_to_cleanup_, s)
    /\ SetCtx(GameController_routeDisconnect(Ctx, s).ctx)
    /\ pc' = [pc EXCEPT ![s] = "exited"]
    /\ sent' = NoOutput
    /\ UNCHANGED <<sessions, counter, playback, file_uploads_, running, closes, upload_data>>
    /\ UNCHANGED <<framervars, parservars, lockvars>>

CloseNext ==
    \/ Accept
    \/ \E s \in SessionIds :
         \/ SessionStart(s)
         \/ Session_close(s)
         \/ TcpTransport_destructor(s)
         \/ Session_sendText(s)
         \/ WriteFailure(s)
         \/ Reader_read(s)
         \/ Reader_onReceive(s)
         \/ Reader_readFails(s)
         \/ ReaderStops(s)
         \/ Reader_closeCallback(s)

CloseSpec == Init /\ [][CloseNext]_vars

(***************************************************************************)
(* The cleanup of closed sessions with its scheduling: the sessions are     *)
(* accepted, join and are closed by their peers; the cleanup thread and the *)
(* reader threads keep running, and a thread that waits for a mutex gets it *)
(* if the mutex is free again and again.                                    *)
(***************************************************************************)
CleanupNext ==
    \/ AcceptLoop
    \/ Cleanup_wake
    \/ Cleanup_lock
    \/ Cleanup_erase
    \/ Cleanup_unlock
    \/ \E s \in SessionIds :
         \/ SessionStart(s)
         \/ lock_guard(mutex_) /\ lock_guard(sessions_mutex_) /\ JoinGame(s)
         \/ Reader_closed(s)
         \/ Reader_lock(s)
         \/ Reader_handle(s)
         \/ Reader_egress(s)

\* the cleanup loop wakes every 5 s for as long as the server runs, and each
\* reader thread goes on with the close callback it has entered
CleanupFairness ==
    /\ WF_vars(Cleanup_wake)
    /\ SF_vars(Cleanup_lock)
    /\ WF_vars(Cleanup_erase)
    /\ WF_vars(Cleanup_unlock)
    /\ \A s \in SessionIds :
          /\ SF_vars(Reader_lock(s))
          /\ SF_vars(Reader_handle(s))
          /\ SF_vars(Reader_egress(s))

CleanupSpec == Init /\ [][CleanupNext]_vars /\ CleanupFairness

(***************************************************************************)
(* Server::stop with its scheduling: CleanupSpec with the call of stop.     *)
(* The accept thread finishes the iteration it is in, and the read() of a   *)
(* reader thread returns once its descriptor was shut down.                 *)
(***************************************************************************)
StopNext ==
    \/ CleanupNext
    \/ Server_stop

StopFairness ==
    /\ CleanupFairness
    /\ \A s \in SessionIds :
          /\ WF_vars(SessionStart(s))
          /\ WF_vars(closes[s] >= 1 /\ Reader_closed(s))

StopSpec == Init /\ [][StopNext]_vars /\ StopFairness

(***************************************************************************)
(* The assembly of uploaded files with the content of the chunks: two       *)
(* connected sessions send upload_game lines for their files in any order.  *)
(* upload_data is file_uploads_ with accumulated_data as a sequence of      *)
(* bytes; dispatched is the list of the lines handled so far, and game_data *)
(* the argument of the last call of parseGame.                              *)
(***************************************************************************)
\* variant: the first chunk does not clear what the entry holds
UploadState_receive_keepsData(upload, chunk_current, chunk_data) ==
    [chunks_received |-> chunk_current,
     accumulated_data |-> upload.accumulated_data \o chunk_data]

\* handleFileUploadChunk on the entry of the key: chunk 1 resets the entry,
\* the data is appended, chunks_received = chunk_current
UploadState_receive(upload, chunk_current, chunk_data) ==
    LET cleared == IF chunk_current = 1 THEN UploadState ELSE upload
    IN  [chunks_received |-> chunk_current,
         accumulated_data |-> cleared.accumulated_data \o chunk_data]

\* two sessions accepted and started, no game, no upload
UploadInit ==
    /\ current_state_ = "WaitingForPlayers"
    /\ white_player_id_ = NoPlayer
    /\ black_player_id_ = NoPlayer
    /\ board_ = STARTPOS
    /\ moveNumber_ = 1
    /\ sessions = SessionIds
    /\ active = [r \in SessionIds |-> TRUE]
    /\ counter = MaxSessions
    /\ pc = [r \in SessionIds |-> "reading"]
    /\ sessions_to_cleanup_ = << >>
    /\ playback = [r \in SessionIds |-> NoPlayback]
    /\ file_uploads_ = [r \in SessionIds |-> NoUpload]
    /\ sent = NoOutput
    /\ running = [r \in SessionIds |-> TRUE]
    /\ closes = [r \in SessionIds |-> 0]
    /\ closeCallbacks = [r \in SessionIds |-> << >>]
    /\ upload_data = [k \in UploadKeys |-> UploadState]
    /\ FramerIdle
    /\ ParserIdle
    /\ LockIdle

\* an upload_game line of session s with well-formed metadata: the chunk is
\* a byte that no other chunk holds. On the last chunk processFileContent
\* hands the buffer to parseGame; the bytes hold no move, so the uploader is
\* sent game_complete with the error, and the entry is erased. On another
\* chunk the progress is acknowledged.
UploadLine(s) ==
    /\ pc[s] = "reading"
    /\ active[s]
    /\ Len(dispatched) < MaxUploadLines
    /\ \E filename \in UploadFilenames : \E chunk_current \in 1..(MaxChunks + 1) :
       \E chunks_total \in 1..MaxChunks :
          LET chunk_data == <<Len(dispatched) + 1>>
              key == upload_key(Session_generateSessionId(s), filename)
              upload == UploadState_receive(upload_data[key], chunk_current, chunk_data)
              ack == [type |-> "upload_progress", chunk_received |-> chunk_current,
                      chunks_total |-> chunks_total,
                      percent |-> (chunk_current * 100) \div chunks_total]
              error_response == [type |-> "game_complete", total_moves |-> 0,
                                 error |-> "No valid moves found. Check file format."]
          IN  /\ dispatched' = Append(dispatched,
                                      [session |-> s, key |-> key,
                                       chunk_current |-> chunk_current,
                                       chunks_total |-> chunks_total, data |-> chunk_data])
              /\ IF chunk_current >= chunks_total
                 THEN /\ game_data' = upload.accumulated_data
                      /\ called' = "parseGame"
                      /\ result' = nullopt
                      /\ upload_data' = [upload_data EXCEPT ![key] = UploadState]
                      /\ sent' = Outbox(sessions, active, <<Unicast(s, dump(error_response))>>)
                 ELSE /\ upload_data' = [upload_data EXCEPT ![key] = upload]
                      /\ called' = "nothing"
                      /\ sent' = Outbox(sessions, active, Session_sendResponse(s, <<dump(ack)>>))
                      /\ UNCHANGED <<game_data, result>>
    /\ UNCHANGED <<ctxvars, srvvars, file_uploads_, running, transportvars, lockvars>>
    /\ UNCHANGED <<wire, consumed, buffer, handed, rpc, parser_, move_str>>

UploadNext == \E s \in SessionIds : UploadLine(s)

UploadSpec == UploadInit /\ [][UploadNext]_vars

(***************************************************************************)
(* Properties                                                              *)
(***************************************************************************)
JoinColor(color) == [command |-> "join_game", single_player |-> "false", color |-> color]

\* join_single as a client may send it: the color field is optional
JoinSingle(color) == [command |-> "join_game", single_player |-> "true", color |-> color]

\* the commands of the admissibility table, well formed
TableCommands ==
    {JoinColor(c) : c \in {"white", "black"}}
    \cup {JoinSingle(c) : c \in {"white", "black", "null"}}
    \cup {[command |-> "start_game"], [command |-> "end_game"], [command |-> "display_board"]}
    \cup {[command |-> "make_move", move |-> m] : m \in ParsedMoves}

\* the admissibility table: the error message of an inadmissible command, ""
\* for an admissible one
TableError(state, msg) ==
    CASE msg.command = "join_game" /\ msg.single_player = "false" ->
             (CASE state = "WaitingForPlayers" -> ""
                [] state = "ReadyToStart" -> "Both players already joined"
                [] state = "InProgress" -> "Game already in progress"
                [] state = "GameOver" -> "Game is over. Start a new game")
      [] msg.command = "join_game" /\ msg.single_player = "true" ->
             IF state = "WaitingForPlayers" THEN "" ELSE "Game already in progress"
      [] msg.command = "start_game" ->
             (CASE state = "WaitingForPlayers" -> "Cannot start: waiting for players"
                [] state = "ReadyToStart" -> ""
                [] state = "InProgress" -> "Game already started"
                [] state = "GameOver" -> "Game is over. Reset first")
      [] msg.command = "make_move" ->
             (CASE state = "WaitingForPlayers" -> "Cannot move: game not started"
                [] state = "ReadyToStart" -> "Game not started yet"
                [] state = "InProgress" -> ""
                [] state = "GameOver" -> "Game is over")
      [] msg.command = "end_game" ->
             IF state = "WaitingForPlayers" THEN "No game to end" ELSE ""
      [] msg.command = "display_board" ->
             (CASE state = "WaitingForPlayers" -> "No game to display"
                [] state = "ReadyToStart" -> "Game not started yet"
                [] state = "InProgress" -> ""
                [] state = "GameOver" -> "Game is over. Start a new game")

\* the envelopes of a given type among the lines handed to a session
envelopeType(text) ==
    IF "type" \in DOMAIN parseLine(text) THEN parseLine(text).type ELSE "none"

HasEnvelope(lines, type) == \E i \in 1..Len(lines) : envelopeType(lines[i]) = type

\* the sessions a broadcast reaches, the sender left out
OtherActive(s) == {r \in sessions : r # s /\ active[r]}

ResetState ==
    /\ current_state_ = "WaitingForPlayers"
    /\ white_player_id_ = NoPlayer
    /\ black_player_id_ = NoPlayer
    /\ board_ = STARTPOS
    /\ moveNumber_ = 1

AppliedMove == Len(board_') = Len(board_) + 1

\* a make_move line or one playback iteration of session s; a make_move line
\* is always answered, so only the steps that send to s can be one
MoveAttempt(s) ==
    \/ sent'[s] # << >> /\ MakeMove(s)
    \/ PlaybackStep(s)

\* C1: a command the table marks inadmissible in the current state is answered
\* to the sender with the error message of its table cell and leaves the FSM
\* state, both player slots and the chess position unchanged.
C1_TableObeyed ==
    [][\A s \in SessionIds, msg \in TableCommands :
          (HandleLine(s, msg) /\ TableError(current_state_, msg) # "")
              => /\ sent'[s] = <<dump(buildError(TableError(current_state_, msg)))>>
                 /\ UNCHANGED ctxvars]_vars

\* C2: whenever the FSM state is ReadyToStart, InProgress or GameOver, the
\* white and the black player slot are both bound.
C2_BothSlotsBound ==
    current_state_ \in {"ReadyToStart", "InProgress", "GameOver"}
        => white_player_id_ # NoPlayer /\ black_player_id_ # NoPlayer

C2_Witness ==
    /\ current_state_ = "ReadyToStart"
    /\ white_player_id_ # NoPlayer
    /\ black_player_id_ # NoPlayer
    /\ \E r \in SessionIds : pc[r] \in {"notify", "exited"}

\* C3: an end_game accepted in ReadyToStart, InProgress or GameOver, and the
\* disconnect of a bound player, leave both slots empty, the chess model at
\* the starting position with move number 1, and the state WaitingForPlayers.
C3_ResetPostState ==
    [][(\E s \in SessionIds :
           \/ EndGame(s) /\ current_state_ # "WaitingForPlayers"
           \/ PeerClose(s) /\ s \in {white_player_id_, black_player_id_})
          => ResetState']_vars

C3_Witness ==
    /\ ResetState
    /\ \E s \in SessionIds :
         sent[s] = <<dump([type |-> "game_reset", status |-> "Waiting for new players"])>>

\* C4: the k-th move applied since the last start or reset carries
\* strike_number k, from make_move and from playback alike; a rejected move
\* leaves the counter alone; start and reset return the next number to 1.
C4_StrikeNumbers ==
    [][/\ \A s \in SessionIds :
            MoveAttempt(s)
              => IF AppliedMove
                 THEN \E i \in 1..Len(sent'[s]) :
                        /\ parseLine(sent'[s][i]).type = "move_result"
                        /\ parseLine(sent'[s][i]).strike.strike_number = Len(board_')
                        /\ moveNumber_' = Len(board_') + 1
                 ELSE /\ moveNumber_' = moveNumber_
                      /\ ~HasEnvelope(sent'[s], "move_result")
       /\ (\E s \in SessionIds :
              \/ StartGame(s) /\ current_state_ = "ReadyToStart"
              \/ EndGame(s) /\ current_state_ # "WaitingForPlayers"
              \/ PeerClose(s) /\ s \in {white_player_id_, black_player_id_})
            => moveNumber_' = 1 /\ board_' = STARTPOS]_vars

C4_Witness ==
    \E s \in SessionIds :
        /\ HasEnvelope(sent[s], "move_result")
        /\ moveNumber_ = 3
        /\ \E i \in 1..Len(sent[s]) :
              /\ parseLine(sent[s][i]).type = "move_result"
              /\ parseLine(sent[s][i]).strike.strike_number = 2

\* C5 as stated: once the state is GameOver, only an accepted end/reset
\* command changes the FSM state, the player slots or the chess model.
C5_OnlyEndLeavesGameOver ==
    [][(current_state_ = "GameOver" /\ ~(\E s \in SessionIds : EndGame(s)))
          => UNCHANGED ctxvars]_vars

\* C5 amended: once the state is GameOver, the FSM state, the player slots and
\* the chess model change only by an accepted end/reset command or by the
\* disconnect of a session bound to a colour, and then to the reset state; the
\* disconnect of a session bound to no colour changes nothing.
C5_GameOverFrame ==
    [][current_state_ = "GameOver"
          => \/ UNCHANGED ctxvars
             \/ /\ \E s \in SessionIds :
                      \/ EndGame(s)
                      \/ PeerClose(s) /\ s \in {white_player_id_, black_player_id_}
                /\ ResetState']_vars

C5_Witness ==
    /\ current_state_ = "GameOver"
    /\ \E r \in SessionIds :
         /\ pc[r] = "exited"
         /\ r \notin {white_player_id_, black_player_id_}

\* C6: when the transport of a bound session closes, the game is reset and the
\* envelope {type: game_reset, reason: all_players_disconnected} is sent to
\* every other session that is in the map and active, never to the
\* disconnected session.
C6_DisconnectBroadcast ==
    [][\A s \in SessionIds :
          /\ (PeerClose(s) /\ s \in {white_player_id_, black_player_id_})
                => (ResetState' /\ pc'[s] = "notify")
          /\ DisconnectNotify(s)
                => \A r \in SessionIds :
                      sent'[r] = IF r \in OtherActive(s) THEN <<dump(reset_broadcast)>>
                                                         ELSE << >>]_vars

\* C7: a join(color) accepted in WaitingForPlayers that leaves a slot empty
\* sends a player_joined envelope to every active session but the sender; one
\* that fills the second slot moves to ReadyToStart and sends a game_ready
\* envelope to every active session, the sender included.
C7_JoinBroadcasts ==
    [][\A s \in SessionIds, color \in {"white", "black"} :
          (/\ HandleLine(s, JoinColor(color))
           /\ current_state_ = "WaitingForPlayers"
           /\ HasEnvelope(sent'[s], "join_success"))
              => IF white_player_id_' # NoPlayer /\ black_player_id_' # NoPlayer
                 THEN /\ current_state_' = "ReadyToStart"
                      /\ \A r \in OtherActive(s) \cup {s} : HasEnvelope(sent'[r], "game_ready")
                 ELSE /\ current_state_' = "WaitingForPlayers"
                      /\ \A r \in OtherActive(s) : HasEnvelope(sent'[r], "player_joined")
                      /\ ~HasEnvelope(sent'[s], "player_joined")]_vars

\* C8: for a move applied in InProgress, the line broadcast to every other
\* active session is the move_result envelope returned to the sender, with the
\* same strike and the same board.fen.
C8_SameMoveEnvelope ==
    [][\A s \in SessionIds :
          (MakeMove(s) /\ AppliedMove)
              => LET reply == sent'[s][Len(sent'[s])]
                 IN  /\ parseLine(reply).type = "move_result"
                     /\ parseLine(reply).board.fen = ChessGame_getFEN(board_')
                     /\ \A r \in OtherActive(s) :
                           /\ Len(sent'[r]) = 1
                           /\ parseLine(sent'[r][1]) = parseLine(reply)]_vars

\* C9: an end/reset accepted in ReadyToStart, InProgress or GameOver replies
\* {type: game_reset, status: "Waiting for new players"} to the sender and
\* broadcasts a game_reset envelope to every other active session.
C9_ResetReplyAndBroadcast ==
    [][\A s \in SessionIds :
          (EndGame(s) /\ current_state_ # "WaitingForPlayers")
              => /\ sent'[s] = <<dump([type |-> "game_reset",
                                       status |-> "Waiting for new players"])>>
                 /\ \A r \in OtherActive(s) : Len(sent'[r]) > 0]_vars

\* C10: join_game with single_player = true and no color, received in
\* WaitingForPlayers, binds the sender to both colours, moves to ReadyToStart,
\* and the sender is sent join_success(single_player: true) then game_ready.
C10_SinglePlayerJoin ==
    [][\A s \in SessionIds :
          (HandleLine(s, JoinSingle("null")) /\ current_state_ = "WaitingForPlayers")
              => /\ white_player_id_' = s
                 /\ black_player_id_' = s
                 /\ current_state_' = "ReadyToStart"
                 /\ Len(sent'[s]) = 2
                 /\ parseLine(sent'[s][1]).type = "join_success"
                 /\ parseLine(sent'[s][1]).single_player = TRUE
                 /\ parseLine(sent'[s][2]).type = "game_ready"]_vars

\* C11 as stated: in ReadyToStart a start command changes the state to
\* InProgress only if the requesting session holds the white or the black
\* slot; a start from a session bound to neither colour does not start the game.
C11_StartOnlyByBoundPlayer ==
    [][\A s \in SessionIds :
          (StartGame(s) /\ current_state_ = "ReadyToStart" /\ current_state_' = "InProgress")
              => s \in {white_player_id_, black_player_id_}]_vars

\* the slot of a colour
Slot(color) == IF color = "white" THEN white_player_id_ ELSE black_player_id_

OtherColor(color) == IF color = "white" THEN "black" ELSE "white"

SlotTaken(color) == IF color = "white" THEN "White player slot already taken"
                                       ELSE "Black player slot already taken"

C14_UnboundDisconnect ==
    [][\A s \in SessionIds :
          (PeerClose(s) /\ s \notin {white_player_id_, black_player_id_})
              => /\ UNCHANGED ctxvars
                 /\ sent' = NoOutput
                 /\ pc'[s] = "exited"]_vars

\* a game is in progress and a session that holds no colour has disconnected
C14_Witness ==
    /\ current_state_ = "InProgress"
    /\ board_ # STARTPOS
    /\ \E r \in SessionIds :
         /\ pc[r] = "exited"
         /\ r \notin {white_player_id_, black_player_id_}

\* the number of envelopes of a given type among the lines handed to a session
CountEnvelopes(lines, type) ==
    Cardinality({i \in 1..Len(lines) : envelopeType(lines[i]) = type})

\* the move the playback of session s is about to dispatch
PlaybackMove(s) == playback[s].moves[playback[s].i + 1]

\* C18: each iteration of the scripted playback dispatches the next move of
\* the file through the context. A move that applies is appended to the
\* game and the uploader is unicast exactly one move_result for it; the loop
\* goes on to the following move unless that move was flagged checkmate or
\* stalemate or was the last one, and a game_over envelope follows the
\* move_result exactly when the move was so flagged. A move that fails
\* changes nothing, sends the uploader nothing and ends the playback, so the
\* moves applied are the longest prefix of the file that applies.
C18_PlaybackPrefix ==
    [][\A s \in SessionIds :
          PlaybackStep(s)
            => IF AppliedMove
               THEN LET first == parseLine(sent'[s][1])
                        terminal == first.strike.checkmate \/ first.strike.stalemate
                    IN  /\ board_' = Append(board_, PlaybackMove(s))
                        /\ Len(sent'[s]) >= 1
                        /\ first.type = "move_result"
                        /\ first.strike.move = PlaybackMove(s)
                        /\ CountEnvelopes(sent'[s], "move_result") = 1
                        /\ CountEnvelopes(sent'[s], "game_over") = IF terminal THEN 1 ELSE 0
                        /\ Len(sent'[s]) = IF terminal THEN 2 ELSE 1
                        /\ (pc'[s] = "playback")
                              <=> (~terminal /\ playback[s].i + 1 < Len(playback[s].moves))
                        /\ pc'[s] = "playback"
                              => playback'[s] = [moves |-> playback[s].moves,
                                                 i |-> playback[s].i + 1]
               ELSE /\ UNCHANGED ctxvars
                    /\ sent' = NoOutput
                    /\ pc'[s] = "reading"
                    /\ playback'[s] = NoPlayback]_vars

\* a playback has just ended on a terminal move: move_result, then game_over
C18_Witness ==
    \E s \in SessionIds :
        /\ Len(sent[s]) = 2
        /\ parseLine(sent[s][1]).type = "move_result"
        /\ parseLine(sent[s][2]).type = "game_over"
        /\ parseLine(sent[s][2]).total_moves = 2
        /\ pc[s] = "reading"

\* chunk k of n of an upload whose chunks arrive in order: the first chunk, or
\* the chunk that follows the k-1 chunks accumulated since the first
InOrderChunk(s, msg) ==
    /\ msg.metadata = "ok"
    /\ 1 <= msg.chunk_current
    /\ msg.chunk_current <= msg.chunks_total
    /\ \/ msg.chunk_current = 1
       \/ /\ file_uploads_[s].present
          /\ file_uploads_[s].accumulated_data = msg.chunk_current - 1

UploadProgress(msg) ==
    [type |-> "upload_progress", chunk_received |-> msg.chunk_current,
     chunks_total |-> msg.chunks_total,
     percent |-> (msg.chunk_current * 100) \div msg.chunks_total]

OutOfRangeChunk(s, msg) ==
    /\ msg.metadata = "ok"
    /\ \/ msg.chunk_current < 1
       \/ msg.chunk_current > msg.chunks_total
       \/ msg.chunks_total <= 0
       \/ msg.chunk_current # 1 /\ ~file_uploads_[s].present

\* C20 as stated: an upload_game chunk whose number is out of range is
\* answered with exactly one error envelope, starts no playback, leaves the
\* game state and the upload table unchanged, and the server keeps running.
C20_OutOfRangeChunkRejected ==
    [][\A s \in SessionIds, msg \in UploadMessages :
          (pc[s] = "reading" /\ OutOfRangeChunk(s, msg) /\ UploadChunk(s, msg))
              => /\ Len(sent'[s]) = 1
                 /\ parseLine(sent'[s][1]).type = "error"
                 /\ pc'[s] = "reading"
                 /\ UNCHANGED <<ctxvars, file_uploads_>>]_vars

\* the well-formed lines that fail with a parse, state or rules error in the
\* current state
RefusedCommands ==
    {msg \in TableCommands : TableError(current_state_, msg) # ""}
    \cup {[command |-> "make_move", move |-> "garbage"]}
    \cup {msg \in {[command |-> "make_move", move |-> "illegal"]} :
             current_state_ = "InProgress"}

\* join_game lines that lack a field
JoinsLackingField ==
    {msg \in JoinMessages : msg.single_player = "null" \/ msg.color = "null"}

\* lines with an unknown command or with none
UnknownCommands ==
    {msg \in MalformedLines :
        \/ "other" \in DOMAIN msg
        \/ "command" \in DOMAIN msg /\ msg.command = "fly"}

\* what C13 asks of the step that handles a failing line of session s
OneErrorEnvelope(s) ==
    /\ Len(sent'[s]) = 1
    /\ envelopeType(sent'[s][1]) = "error"
    /\ "error" \in DOMAIN parseLine(sent'[s][1])
    /\ \A r \in SessionIds \ {s} : sent'[r] = << >>
    /\ pc'[s] = "reading"
    /\ active'[s]
    /\ UNCHANGED ctxvars

\* C13 as stated: every command that fails with a protocol, parse, state,
\* rules or upload error results in exactly one {type: error, error: ...}
\* envelope sent to the originating session and no envelope sent to any other
\* session; the session stays open and the game state is unchanged.
C13_OneErrorEnvelope ==
    [][\A s \in SessionIds :
          /\ \A msg \in MalformedLines : HandleLine(s, msg) => OneErrorEnvelope(s)
          /\ \A msg \in JoinsLackingField : HandleLine(s, msg) => OneErrorEnvelope(s)
          /\ \A msg \in RefusedCommands : HandleLine(s, msg) => OneErrorEnvelope(s)
          /\ \A msg \in UploadMessages :
                (/\ pc[s] = "reading"
                 /\ msg.metadata = "malformed" \/ OutOfRangeChunk(s, msg)
                 /\ UploadChunk(s, msg)) => OneErrorEnvelope(s)]_vars

\* the part of C13 the code does meet: a line that is not JSON, a line
\* lacking a required field, a refused command and an upload chunk with
\* malformed metadata are each answered with exactly one error envelope to the
\* sender alone and change nothing (each of these lines is answered, so only
\* the steps that send to s are looked at).
C13_OtherErrorsAnswered ==
    [][\A s \in SessionIds :
          (pc[s] = "reading" /\ sent'[s] # << >>)
              => /\ \A msg \in MalformedLines \ UnknownCommands :
                       HandleLine(s, msg) => OneErrorEnvelope(s)
                 /\ \A msg \in JoinsLackingField : HandleLine(s, msg) => OneErrorEnvelope(s)
                 /\ \A msg \in RefusedCommands : HandleLine(s, msg) => OneErrorEnvelope(s)
                 /\ \A msg \in UploadMessages :
                       (msg.metadata = "malformed" /\ UploadChunk(s, msg))
                           => OneErrorEnvelope(s)]_vars

\* C17 as stated: the start of a session delivers to its client exactly one
\* session_created envelope carrying the session's own id, written to the
\* connection because the transport is already started when it is sent.
C17_HandshakeDelivered ==
    [][\A s \in SessionIds :
          SessionStart(s)
              => sent' = [NoOutput EXCEPT ![s] =
                            <<dump([type |-> "session_created", session_id |-> s])>>]]_vars

\* no session is ever sent a session_created envelope
C17_NoHandshakeEver ==
    \A r \in SessionIds : ~HasEnvelope(sent[r], "session_created")

\* the newline-terminated lines of a byte string and its unterminated tail,
\* read off byte by byte
RECURSIVE Scan(_, _, _)
Scan(str, lines, cur) ==
    IF str = << >> THEN [lines |-> lines, tail |-> cur]
    ELSE IF Head(str) = LF THEN Scan(Tail(str), Append(lines, cur), << >>)
    ELSE Scan(Tail(str), lines, Append(cur, Head(str)))

LinesOf(str) == Scan(str, << >>, << >>).lines
TailOf(str) == Scan(str, << >>, << >>).tail

\* C15: whatever the stream and however it is cut into reads, the messages
\* dispatched so far, followed by the lines still complete in the buffer, are
\* the newline-terminated lines of the bytes read so far, each once and in
\* stream order, and the buffer ends with the unterminated tail of those
\* bytes; whenever onReceive has returned, every line read has been
\* dispatched and the buffer holds exactly the unterminated tail.
C15_FramerDispatchesLines ==
    /\ dispatched \o LinesOf(buffer) = LinesOf(consumed)
    /\ TailOf(buffer) = TailOf(consumed)
    /\ rpc = "read" => /\ dispatched = LinesOf(consumed)
                       /\ buffer = TailOf(consumed)

\* a line longer than one read can deliver, split across reads and dispatched
\* as one message once its newline has arrived
C15_Witness ==
    /\ wire = << >>
    /\ rpc = "read"
    /\ consumed = <<"a", "b", "a", LF>>
    /\ dispatched = << <<"a", "b", "a">> >>
    /\ buffer = << >>

\* C16: the messages are dispatched in wire order, and the send for message
\* N has been made before message N+1 is dispatched: the sends are made one
\* per message in the order of dispatch, at most the last message dispatched
\* is still without its send, and a message is dispatched only when every
\* earlier one has had its send.
C16_ResponseBeforeNextDispatch ==
    /\ [](/\ \A i \in 1..Len(dispatched) : dispatched[i] = LinesOf(consumed \o wire)[i]
          /\ Len(handed) <= Len(dispatched)
          /\ Len(dispatched) <= Len(handed) + 1
          /\ \A i \in 1..Len(handed) : handed[i].n = i /\ handed[i].to = dispatched[i])
    /\ [][Len(dispatched') > Len(dispatched)
            => /\ Len(dispatched') = Len(dispatched) + 1
               /\ Len(handed) = Len(dispatched)]_vars

\* the second message has been dispatched, after the send for the first
C16_Witness ==
    /\ rpc = "routed"
    /\ Len(dispatched) = 2
    /\ Len(handed) = 1
    /\ handed[1].present

\* C21 as stated: an entry of the upload table exists only between the first
\* chunk of an upload and its completion: the step that ends the playback of
\* the final chunk leaves no entry for the uploader, and the close of a session
\* leaves no entry for that session.
C21_UploadEntryLifecycle ==
    [][\A s \in SessionIds :
          /\ (PlaybackStep(s) /\ pc'[s] = "reading") => ~file_uploads_'[s].present
          /\ PeerClose(s) => ~file_uploads_'[s].present]_vars

\* the part of C21 the code does meet: the step that ends a playback erases
\* the uploader's entry
C21_ErasedOnCompletion ==
    [][\A s \in SessionIds :
          (PlaybackStep(s) /\ pc'[s] = "reading") => ~file_uploads_'[s].present]_vars

\* a session has closed and its entry is still in the table
C21_EntryOutlivesSession ==
    \E s \in SessionIds : pc[s] = "exited" /\ file_uploads_[s].present

\* a result text is the sequence of its words: "checkmate (white wins)" is
\* <<"checkmate", "white", "wins">>, "checkmate" is <<"checkmate">>
ResultText(word) == <<word>>

\* C22 as stated: the game_over envelope that ends a playback carries the
\* result "checkmate" when the last move applied is flagged checkmate and the
\* result "stalemate" when it is flagged stalemate, so the two outcomes never
\* carry the same result.
C22_DistinctResults ==
    [][\A s \in SessionIds :
          (PlaybackStep(s) /\ HasEnvelope(sent'[s], "game_over"))
              => LET over == parseLine(sent'[s][Len(sent'[s])])
                 IN  /\ over.type = "game_over"
                     /\ ChessGame_isCheckmate(board_') => over.result = ResultText("checkmate")
                     /\ ChessGame_isStalemate(board_') => over.result = ResultText("stalemate")]_vars

\* a playback has just ended in stalemate and its game_over envelope names a
\* checkmate and a winner
C22_StalemateReportedAsCheckmate ==
    \E s \in SessionIds :
        /\ ChessGame_isStalemate(board_)
        /\ Len(sent[s]) = 2
        /\ parseLine(sent[s][2]).type = "game_over"
        /\ parseLine(sent[s][2]).result[1] = "checkmate"

\* C23 as stated: when a write on the transport of a session fails, the
\* session is closed: its transport is shut down, the session is inactive,
\* its id is queued for cleanup, the controller has handled its disconnect,
\* and the game is reset if the session held a colour.
C23_WriteFailureClosesSession ==
    [][\A s \in SessionIds :
          WriteFailure(s)
              => /\ ~running'[s]
                 /\ ~active'[s]
                 /\ \E i \in 1..Len(sessions_to_cleanup_') : sessions_to_cleanup_'[i] = s
                 /\ s \in {white_player_id_, black_player_id_} => ResetState']_vars

\* a session whose write failed has handled its last read and its reader
\* thread has ended: the session is still active and in the sessions map, it
\* was never reported closed, and it still holds its colour in a running game
C23_FailedSessionStaysBound ==
    \E s \in SessionIds :
        /\ pc[s] = "stopped"
        /\ active[s]
        /\ s \in sessions
        /\ sessions_to_cleanup_ = << >>
        /\ current_state_ = "InProgress"
        /\ s \in {white_player_id_, black_player_id_}

\* once the reader thread of a session has ended without the close callback,
\* nothing closes the session while the process runs
C23_FailedSessionNeverClosed ==
    [][\A s \in SessionIds :
          (pc[s] = "stopped" /\ pc'[s] # "terminated")
              => pc'[s] = "stopped" /\ active'[s]]_vars

\* the lines of a file in simple notation before its first line that is
\* neither a strike, a comment nor blank
ParseableLine(line) ==
    SimpleChessGame_strike(line) \/ SimpleChessGame_comment(line) \/ SimpleChessGame_blank(line)

BeforeFirstFailure(data) ==
    LET bad == {k \in 1..Len(data) : ~ParseableLine(data[k])}
        cut == IF bad = {} THEN Len(data) + 1
               ELSE CHOOSE k \in bad : \A j \in bad : k <= j
    IN  SubSeq(data, 1, cut - 1)

StrikesBeforeFirstFailure(data) ==
    SelectSeq(BeforeFirstFailure(data), SimpleChessGame_strike)

\* C24: parse_game of the simple-notation parser returns the strikes of the
\* file as (from, to) pairs in file order, comment lines and blank lines
\* skipped; the moves returned are those of the lines before the first line
\* that does not parse, and no result is returned exactly when there is no
\* such move.
C24_ParseGameStrikesInOrder ==
    (called = "parseGame" /\ parser_ = "SimpleNotation") =>
        LET strikes == StrikesBeforeFirstFailure(game_data)
        IN  /\ result.has_value <=> strikes # << >>
            /\ Len(result.moves) = Len(strikes)
            /\ \A k \in 1..Len(strikes) :
                  /\ result.moves[k].from = StrikeCoords(strikes[k])[1]
                  /\ result.moves[k].to = StrikeCoords(strikes[k])[2]
                  /\ ~result.moves[k].is_san

\* C24 witness: a file of three lines, a strike with a comment, a line that
\* does not parse and another strike, has been parsed: one move is returned,
\* the first.
C24_StopsAtFirstFailure ==
    /\ called = "parseGame" /\ parser_ = "SimpleNotation"
    /\ game_data = <<<<"e7", "-", "e5", "// c">>, <<"invalid">>, <<"e2", "-", "e4">>>>
    /\ result.has_value
    /\ Len(result.moves) = 1
    /\ result.moves[1].from = "e7" /\ result.moves[1].to = "e5"

\* C24, second case: a comment line and a blank line between two strikes are
\* skipped and both strikes are returned in order.
C24_SkipsCommentsAndBlanks ==
    (called = "parseGame" /\ parser_ = "SimpleNotation"
        /\ Len(game_data) = 3
        /\ SimpleChessGame_strike(game_data[1]) /\ SimpleChessGame_strike(game_data[3])
        /\ (SimpleChessGame_comment(game_data[2]) \/ SimpleChessGame_blank(game_data[2])))
    => /\ Len(result.moves) = 2
       /\ result.moves[1].to = StrikeCoords(game_data[1])[2]
       /\ result.moves[2].to = StrikeCoords(game_data[3])[2]

\* a text that is one SAN move: a single token of one of the four move kinds
IsSanMove(str) == Len(str) = 1 /\ PGNLexer(str[1]) \in SanTokens

\* the SAN tokens of the movetext of a PGN text given by its parts, in order
\* (the moves inside a variation belong to the variation's part)
SanTokensOfMovetext(data) == SelectSeq(data, IsSanMove)

\* C25: parse_move of the PGN parser returns, for a SAN token, a ParsedMove
\* with is_san true, the token as notation and empty from and to, and returns
\* nothing for a text that is not a SAN move; parse_game returns the SAN
\* tokens of the movetext in order, tag pairs and move numbers ignored.
C25_PGNParser ==
    /\ (called = "parseMove" /\ parser_ = "PGN") =>
          IF IsSanMove(move_str)
          THEN result = [has_value |-> TRUE,
                         moves |-> <<[notation |-> move_str, from |-> "", to |-> "",
                                      is_san |-> TRUE]>>]
          ELSE ~result.has_value
    /\ (called = "parseGame" /\ parser_ = "PGN") =>
          /\ result.has_value
          /\ Len(result.moves) = Len(SanTokensOfMovetext(game_data))
          /\ \A k \in 1..Len(result.moves) :
                /\ result.moves[k].notation = SanTokensOfMovetext(game_data)[k]
                /\ result.moves[k].is_san

\* C25: the state that refutes it: the text "e4 e5", two moves, was given to
\* parse_move and the move e4 was returned.
C25_TrailingTextAccepted ==
    /\ called = "parseMove" /\ parser_ = "PGN"
    /\ move_str = <<"e4", "e5">>
    /\ result.has_value
    /\ result.moves[1].notation = <<"e4">>

\* C25, the parts that hold: a single SAN token is returned as the claim
\* says, a text whose first token is not a move gives nothing, and parse_game
\* returns the SAN tokens of the movetext in order.
C25_PGNParserOnSingleTokens ==
    /\ (called = "parseMove" /\ parser_ = "PGN" /\ IsSanMove(move_str)) =>
          result = [has_value |-> TRUE,
                    moves |-> <<[notation |-> move_str, from |-> "", to |-> "",
                                 is_san |-> TRUE]>>]
    /\ (called = "parseMove" /\ parser_ = "PGN"
           /\ (move_str = << >> \/ PGNLexer(move_str[1]) \notin SanTokens)) =>
          ~result.has_value
    /\ (called = "parseGame" /\ parser_ = "PGN") =>
          /\ result.has_value
          /\ Len(result.moves) = Len(SanTokensOfMovetext(game_data))
          /\ \A k \in 1..Len(result.moves) :
                /\ result.moves[k].notation = SanTokensOfMovetext(game_data)[k]
                /\ result.moves[k].is_san

\* C29: the game_reset broadcast of a disconnect is issued after the context
\* mutex was released; whenever a session is sent that envelope, no join was
\* accepted since the reset that caused it: the receiver is bound to no
\* colour at the moment the envelope is sent to it.
C29_ResetReceiverUnbound ==
    [][\A s \in SessionIds :
          (pc[s] = "notify" /\ DisconnectNotify(s))
             => \A r \in SessionIds :
                   sent'[r] # << >> => r \notin {white_player_id_, black_player_id_}]_vars

\* C29: the state that refutes it: a disconnect has reset the game and its
\* broadcast is still to be sent, and another session, which will receive it,
\* has already joined the new game.
C29_JoinedBeforeResetSent ==
    \E s \in SessionIds :
       /\ pc[s] = "notify"
       /\ \E r \in OtherActive(s) : r \in {white_player_id_, black_player_id_}

\* C29, the part that holds: the reset and its broadcast are two steps, the
\* reset made under the context mutex leaves both slots empty, and every
\* receiver of the envelope is a session other than the disconnected one.
C29_ResetThenBroadcast ==
    [][\A s \in SessionIds :
          /\ (pc[s] = "reading" /\ PeerClose(s) /\ pc'[s] = "notify")
                => (ResetState' /\ sent' = NoOutput)
          /\ (pc[s] = "notify" /\ DisconnectNotify(s))
                => (sent'[s] = << >> /\ UNCHANGED ctxvars)]_vars

\* session s is between two moves of its playback
BetweenPlaybackMoves(s) == pc[s] = "playback" /\ playback[s].i >= 1

\* C30: while a playback runs, the moves of the file are applied
\* contiguously: between two moves of the same playback no step of another
\* session (move, end/reset, disconnect reset) changes the game, so the
\* strike numbers of the move_result envelopes unicast to the uploader are
\* consecutive.
C30_PlaybackContiguous ==
    [][\A s \in SessionIds :
          (BetweenPlaybackMoves(s) /\ playback'[s] = playback[s])
             => UNCHANGED ctxvars]_vars

\* C30, the part that holds: a step of the playback itself applies the next
\* move of the file under the context mutex, and numbers it with the game's
\* move counter at that moment.
C30_PlaybackMoveNumbered ==
    [][\A s \in SessionIds :
          (BetweenPlaybackMoves(s) /\ PlaybackStep(s) /\ AppliedMove)
             => /\ board_' = Append(board_, PlaybackMove(s))
                /\ parseLine(sent'[s][1]).strike.strike_number = moveNumber_]_vars

\* the threads that take locks and wait for one another
Threads == SessionIds \cup {CleanupThreadId}

\* the thread that thread t is waiting for: the owner of the mutex whose
\* lock_guard it is constructing, or the thread it is joining; NoThread when
\* it is not waiting
WaitsFor(t) ==
    IF t = CleanupThreadId
    THEN IF cleanupThread.at = "lock" THEN sessions_mutex_
         ELSE IF /\ cleanupThread.at = "erasing"
                 /\ cleanupThread.to_cleanup # << >>
                 /\ Head(cleanupThread.to_cleanup) \in sessions
                 /\ ~jthread_join(Head(cleanupThread.to_cleanup))
         THEN Head(cleanupThread.to_cleanup)
         ELSE NoThread
    ELSE IF pc[t] = "lock" THEN mutex_
    ELSE IF pc[t] = "egress" THEN sessions_mutex_
    ELSE IF pc[t] = "handler" /\ HandlerResult(t).inside # << >> THEN sessions_mutex_
    ELSE NoThread

\* the thread reached from t by following WaitsFor k times
RECURSIVE Walk(_, _)
Walk(t, k) ==
    IF k = 0 THEN t
    ELSE LET u == Walk(t, k - 1) IN IF u = NoThread THEN NoThread ELSE WaitsFor(u)

\* a cycle of threads each waiting for the next
Deadlock == \E t \in Threads : \E k \in 1..Cardinality(Threads) : Walk(t, k) = t

\* C26: no thread tries to acquire the context mutex while it holds the
\* sessions mutex (the only nesting is context mutex, then sessions mutex
\* inside the egress callbacks), and no interleaving of the reader threads,
\* the accept thread, the cleanup thread and Server::stop reaches a deadlock.
C26_NoDeadlock ==
    /\ \A t \in Threads : sessions_mutex_ = t => ~(t \in SessionIds /\ pc[t] = "lock")
    /\ ~Deadlock

\* C26: the state that refutes it: the cleanup thread holds the sessions
\* mutex and joins the reader thread of a closed session, which has reset
\* the game and waits for the sessions mutex to broadcast game_reset.
C26_CleanupJoinsWaitingReader ==
    /\ sessions_mutex_ = CleanupThreadId
    /\ cleanupThread.at = "erasing"
    /\ cleanupThread.to_cleanup # << >>
    /\ pc[Head(cleanupThread.to_cleanup)] = "egress"
    /\ handling[Head(cleanupThread.to_cleanup)] = Disconnect

\* C26, the part that holds: the locks are always taken in the order context
\* mutex, sessions mutex; the owner of the sessions mutex never waits for the
\* context mutex, and without the join under the sessions mutex (the cleanup
\* thread not erasing) no thread waits in a cycle.
C26_LockOrder ==
    /\ \A t \in Threads : sessions_mutex_ = t => ~(t \in SessionIds /\ pc[t] = "lock")
    /\ sessions_mutex_ \in {NoThread, CleanupThreadId}
    /\ mutex_ # NoThread => pc[mutex_] = "handler"
    /\ cleanupThread.at # "erasing" => ~Deadlock

\* C27: the controller's file-upload table is never accessed by two threads
\* at the same time: when two sessions upload concurrently, their reader
\* threads are never inside an operation on the shared table (lookup or
\* insertion by operator[], erase) together.
C27_UploadTableExclusive == Cardinality(InTable) <= 1

\* C27: the state that refutes it: one reader thread is inside
\* file_uploads_[upload_key] for a chunk of its session while another is inside
\* file_uploads_.erase(upload_key) after its playback.
C27_InsertDuringErase ==
    \E s, r \in SessionIds : pc[s] = "table" /\ pc[r] = "erase"

\* C27, the part that holds: no operation on the table is made by a thread
\* that holds the context mutex or the sessions mutex, so no lock orders them.
C27_TableOutsideLocks ==
    \A s \in InTable : mutex_ # s /\ sessions_mutex_ # s

\* the threads inside a context handler
InHandler == {s \in SessionIds : pc[s] = "handler"}

\* C28: every read or write of the FSM state, the player slots and the chess
\* model is made by a thread that holds the context mutex: a thread inside a
\* context handler (join, start, move, end, display, disconnect reset, a
\* playback move) owns the mutex, the step that runs a handler and any step
\* that changes the context is taken by the owner, and no two threads are
\* inside a handler at the same time.
C28_ContextHandlersExclusive ==
    [][/\ \A s \in SessionIds : pc'[s] = "handler" => mutex_' = s
       /\ \A s \in SessionIds : (pc[s] = "handler" /\ pc'[s] # "handler") => mutex_ = s
       /\ ctxvars' # ctxvars =>
             \E s \in SessionIds : mutex_ = s /\ pc[s] = "handler" /\ pc'[s] # "handler"
       /\ Cardinality({s \in SessionIds : pc'[s] = "handler"}) <= 1]_vars

\* C28 witness: one thread is inside a context handler and owns the mutex
\* while another, with a command of its own to handle, waits for the mutex.
C28_Witness ==
    \E s, r \in SessionIds :
       /\ s # r
       /\ pc[s] = "handler" /\ mutex_ = s
       /\ handling[s].command \in {"join_game", "start_game", "make_move", "end_game",
                                   "display_board"}
       /\ pc[r] = "lock" /\ handling[r].command # "disconnect"

\* C31: in InProgress a legal move is applied whoever sends it: the sender is
\* compared neither with the white and black slots nor with the side to move,
\* so the move of any reading session advances the game by that move.
C31_MoveAppliedForAnySender ==
    [][\A s \in SessionIds : \A m \in LegalMoves :
          (/\ current_state_ = "InProgress"
           /\ ChessGame_findMove(board_, m)
           /\ HandleLine(s, [command |-> "make_move", move |-> m]))
          => /\ board_' = Append(board_, m)
             /\ moveNumber_' = moveNumber_ + 1
             /\ HasEnvelope(sent'[s], "move_result")]_vars

\* a session that holds neither colour has just been answered with the
\* move_result of a move it sent
C31_MoveByUnboundSession ==
    \E s \in SessionIds :
        /\ s # white_player_id_
        /\ s # black_player_id_
        /\ Len(board_) > 0
        /\ HasEnvelope(sent[s], "move_result")

\* C32: every change of the FSM state is WaitingForPlayers to ReadyToStart (by
\* a join that leaves both slots filled), ReadyToStart to InProgress (by a
\* start), InProgress to GameOver (by a move that gives checkmate or
\* stalemate) or any state to WaitingForPlayers (by an end request or the
\* disconnection of a bound player); GameOver is entered from InProgress only.
C32_FsmTransitions ==
    [][current_state_' # current_state_ =>
          \/ /\ current_state_ = "WaitingForPlayers"
             /\ current_state_' = "ReadyToStart"
             /\ white_player_id_' # NoPlayer
             /\ black_player_id_' # NoPlayer
             /\ \E s \in SessionIds : JoinGame(s)
          \/ /\ current_state_ = "ReadyToStart"
             /\ current_state_' = "InProgress"
             /\ \E s \in SessionIds : StartGame(s)
          \/ /\ current_state_ = "InProgress"
             /\ current_state_' = "GameOver"
             /\ ChessGame_isCheckmate(board_') \/ ChessGame_isStalemate(board_')
             /\ \E s \in SessionIds : MakeMove(s) \/ PlaybackStep(s)
          \/ /\ current_state_' = "WaitingForPlayers"
             /\ \E s \in SessionIds :
                    \/ EndGame(s)
                    \/ s \in {white_player_id_, black_player_id_} /\ PeerClose(s)]_vars

\* a game that went through every state: it is over, and a session has just
\* been answered with the move that ended it
C32_GameOverReached ==
    /\ current_state_ = "GameOver"
    /\ ChessGame_isCheckmate(board_) \/ ChessGame_isStalemate(board_)
    /\ \E s \in SessionIds : HasEnvelope(sent[s], "move_result")

\* C33: on a successful move whose report sets checkmate or stalemate the
\* move envelope is sent to the sender and broadcast to the others, and the
\* state becomes GameOver after that: at the step that enters GameOver no
\* part of the move's output is still to be sent.
C33_GameOverAfterSending ==
    [][(current_state_ = "InProgress" /\ current_state_' = "GameOver")
          => \A s \in SessionIds : pending'[s] = << >>]_vars

\* after any other successful move the state remains InProgress
C33_InProgressAfterOtherMove ==
    [][\A s \in SessionIds :
          (/\ current_state_ = "InProgress"
           /\ Move_apply(s)
           /\ board_' # board_
           /\ ~ChessGame_isCheckmate(board_')
           /\ ~ChessGame_isStalemate(board_'))
          => pc'[s] = "broadcast"]_vars

\* the game is over for every other session while the player who gave mate
\* has not been sent the move_result
C33_GameOverBeforeReply ==
    \E s \in SessionIds :
        /\ current_state_ = "GameOver"
        /\ mutex_ = NoThread
        /\ pc[s] = "respond"
        /\ pending[s] # << >>

\* C34: the close callback of a transport is invoked at most once, by the
\* transport's reader thread only; a reader thread that has ended after read()
\* returned end of file or an error has invoked it exactly once, and one that
\* ended because running was cleared by close() or by a failed send has not.
C34_CloseCallbackOnce ==
    \A s \in SessionIds :
        /\ Len(closeCallbacks[s]) <= 1
        /\ \A i \in 1..Len(closeCallbacks[s]) : closeCallbacks[s][i] = s
        /\ pc[s] = "exited" => closeCallbacks[s] = <<s>>
        /\ pc[s] \in {"none", "created", "reading", "read", "closed_by_peer", "stopped"}
              => closeCallbacks[s] = << >>

\* the transport was closed locally, its reader thread saw read() fail and
\* has invoked the callback
C34_CallbackAfterLocalClose ==
    \E s \in SessionIds :
        /\ closes[s] = 1
        /\ pc[s] = "exited"
        /\ closeCallbacks[s] = <<s>>

\* C35: close() is idempotent on a transport and on a session: the descriptor
\* is shut down and closed at most once, a close() of a session that is not
\* active or of a transport that is not running changes nothing, and a send
\* after close writes nothing.
C35_CloseIdempotent ==
    [][\A s \in SessionIds :
          /\ closes'[s] # closes[s] => closes[s] = 0 /\ closes'[s] = 1
          /\ (~active[s] /\ Session_close(s))
                => UNCHANGED <<active, running, closes, closeCallbacks, pc>>
          /\ (~running[s] /\ TcpTransport_destructor(s))
                => UNCHANGED <<active, running, closes, closeCallbacks, pc>>
          /\ (closes[s] = 1 /\ Session_sendText(s)) => sent'[s] = << >>]_vars

\* a session closed by close(): not active, its transport not running, its
\* descriptor closed, its reader thread still to notice
C35_ClosedSession ==
    \E s \in SessionIds :
        /\ closes[s] = 1
        /\ ~active[s]
        /\ ~running[s]
        /\ pc[s] \in {"reading", "read"}

\* the sessions that are handed a text by one egress request
Recipients(e) == {r \in SessionIds : Outbox(sessions, active, <<e>>)[r] # << >>}

ActiveSessions == {r \in sessions : active[r]}

\* C36: a broadcast goes to exactly the sessions that are in the sessions map
\* and active, minus the origin if and only if to_all is false; a unicast goes
\* to its target if it is in the map and active; no step hands a text to a
\* session that is inactive or removed from the map.
C36_BroadcastRecipients ==
    /\ [](\A origin \in SessionIds :
             /\ Recipients(Broadcast(origin, TRUE, dump(reset_broadcast))) = ActiveSessions
             /\ Recipients(Broadcast(origin, FALSE, dump(reset_broadcast)))
                    = ActiveSessions \ {origin}
             /\ Recipients(Unicast(origin, dump(reset_broadcast)))
                    = ActiveSessions \cap {origin})
    /\ [][\A r \in SessionIds : sent'[r] # << >> => r \in sessions /\ active'[r]]_vars

\* a join was answered and broadcast while another session of the map had not
\* been started yet: that session was handed nothing
C36_InactiveSessionSkipped ==
    \E s \in SessionIds : \E r \in sessions :
        /\ HasEnvelope(sent[s], "join_success")
        /\ pc[r] = "created"
        /\ ~active[r]
        /\ sent[r] = << >>

\* C37: every session whose close was reported to the server (its close
\* callback ran Server::handleSessionClosed) is eventually removed from the
\* sessions map by the cleanup thread.
C37_ClosedEventuallyRemoved ==
    \A s \in SessionIds : (closeCallbacks[s] # << >>) ~> (s \notin sessions)

\* the cleanup removes only sessions whose close was reported, and an id
\* that left the map is not inserted again (ids come from a counter)
C37_OnlyReportedRemoved ==
    [][\A s \in SessionIds :
          /\ (s \in sessions /\ s \notin sessions') => closeCallbacks[s] # << >>
          /\ (s \notin sessions /\ s \in sessions') => s = counter + 1]_vars

\* the cleanup thread holds the sessions mutex and joins the reader thread
\* of a reported session, which waits for that mutex
C37_CleanupStuck ==
    \E s \in sessions :
        /\ closeCallbacks[s] # << >>
        /\ cleanupThread.at = "erasing"
        /\ cleanupThread.to_cleanup # << >>
        /\ Head(cleanupThread.to_cleanup) = s
        /\ pc[s] = "egress"

\* the accept thread, the cleanup thread and every reader thread have ended,
\* and no session is active
AllThreadsTerminated ==
    /\ ~Server_running
    /\ cleanupThread.at = "returned"
    /\ \A s \in SessionIds : pc[s] \in {"none", "exited"} /\ ~active[s]

\* C38: after Server::stop, eventually the accept thread, the cleanup thread
\* and every session reader thread have terminated and no session is active.
C38_StopTerminates == (~Server_running) ~> AllThreadsTerminated

\* a session that the accept loop had put into the map but not started when
\* stop closed the sessions: it is started after the stop, active, its
\* descriptor open, its reader thread reading
C38_StartedAfterStop ==
    \E s \in sessions :
        /\ ~Server_running
        /\ active[s]
        /\ running[s]
        /\ closes[s] = 0
        /\ pc[s] = "reading"

\* the lines of one upload key handled so far, and the last n of them
KeyLines(log, key) == SelectSeq(log, LAMBDA m : m.key = key)

LastLines(lines, n) == SubSeq(lines, Len(lines) - n + 1, Len(lines))

\* chunks 1..n of a file of n chunks, in order
ChunksInOrder(run) ==
    \A i \in 1..Len(run) : run[i].chunk_current = i /\ run[i].chunks_total = Len(run)

ChunkData(run) == Concat([i \in 1..Len(run) |-> run[i].data])

\* C39: when the chunks 1..n of one key arrived in order, the buffer handed to
\* parseGame on the last one is data_1 ++ ... ++ data_n; a chunk with
\* chunk_current = 1 starts from an empty buffer whatever the entry held; and
\* a buffer holds only bytes of lines of its own key.
C39_BufferIsConcatenation ==
    /\ [](\A k \in UploadKeys :
             \A i \in 1..Len(upload_data[k].accumulated_data) :
                 dispatched[upload_data[k].accumulated_data[i]].key = k)
    /\ [][dispatched' # dispatched =>
             LET line == dispatched'[Len(dispatched')]
                 lines == KeyLines(dispatched', line.key)
                 n == line.chunks_total
                 last == line.chunk_current >= line.chunks_total
             IN  /\ (last /\ Len(lines) >= n /\ ChunksInOrder(LastLines(lines, n)))
                       => /\ called' = "parseGame"
                          /\ game_data' = ChunkData(LastLines(lines, n))
                 /\ last => \A i \in 1..Len(game_data') : dispatched'[game_data'[i]].key = line.key
                 /\ (line.chunk_current = 1 /\ ~last)
                       => upload_data'[line.key].accumulated_data = line.data
                 /\ (line.chunk_current = 1 /\ last) => game_data' = line.data]_vars

\* both sessions uploaded a file of the same name in two chunks, their lines
\* alternating, and the second session's file has just been handed to
\* parseGame; the first session sent its chunk 1 twice, and the second one
\* discarded the first
C39_InterleavedUploads ==
    /\ Len(dispatched) = 4
    /\ dispatched[1].session # dispatched[2].session
    /\ dispatched[3].key = dispatched[1].key
    /\ dispatched[4].key = dispatched[2].key
    /\ ChunksInOrder(<<dispatched[2], dispatched[4]>>)
    /\ dispatched[1].chunk_current = 1 /\ dispatched[1].chunks_total = 2
    /\ dispatched[3].chunk_current = 1 /\ dispatched[3].chunks_total = 2
    /\ called = "parseGame"
    /\ game_data = <<2, 4>>
    /\ upload_data[dispatched[1].key].accumulated_data = <<3>>

\* the step of a line that handleFileUploadChunk takes for the final chunk of
\* an upload (chunk_current >= chunks_total) and that returns to the reader
\* loop: the file held no moves
FinalChunkWithoutMoves(s) ==
    \E msg \in UploadMessages :
        /\ GameController_handleFileUploadChunk(file_uploads_[s], msg).complete
        /\ ~DivisionByZero(msg)
        /\ UploadChunk(s, msg)

\* C40: a step that ends the processing of an upload's final chunk sends the
\* uploader at least one envelope about the file. The processing ends either
\* in the step of the final chunk itself (the file holds no moves: game_complete)
\* or in a step of the playback loop; every step of the loop that applies a
\* move unicasts its move_result, so the case that decides is the loop's first
\* step: when it is over, the uploader has been sent something, in every
\* state of the game and also when that first move is rejected.
C40_UploaderAnswered ==
    [][\A s \in SessionIds :
          /\ (active[s] /\ pc[s] = "reading" /\ pc'[s] = "reading"
                /\ file_uploads_'[s] = NoUpload /\ FinalChunkWithoutMoves(s))
                => sent'[s] # << >>
          /\ (active[s] /\ pc[s] = "playback" /\ playback[s].i = 0
                /\ pc'[s] \in {"reading", "playback"}
                /\ playback'[s] # playback[s])
                => sent'[s] # << >>]_vars

\* C40: the cases of the claim that the code serves: a file without moves is
\* answered by game_complete in the step of its final chunk, and a first move
\* that is applied is answered by its move_result
C40_AnsweredUnlessRejected ==
    [][\A s \in SessionIds :
          /\ (active[s] /\ pc[s] = "reading" /\ pc'[s] = "reading"
                /\ file_uploads_'[s] = NoUpload /\ FinalChunkWithoutMoves(s))
                => HasEnvelope(sent'[s], "game_complete")
          /\ (active[s] /\ pc[s] = "playback" /\ playback[s].i = 0
                /\ pc'[s] \in {"reading", "playback"}
                /\ playback'[s] # playback[s]
                /\ GameController_handleParsedMove(Ctx, s, playback[s].moves[1]).reply.type # "error")
                => HasEnvelope(sent'[s], "move_result")]_vars

====
